---- MODULE Spec2Model ----
(***************************************************************************)
(* Model of the recommendation core of pwa-maxim: the signal cache         *)
(* (lib/signals.ts), the scorer and weight updater (lib/engine/scoring.ts) *)
(* and the explainer (lib/engine/explain.ts).                              *)
(*                                                                         *)
(* Time is the value of Date.now() in milliseconds.  ISO timestamps have   *)
(* millisecond resolution, so toISOString / new Date(..).getTime() are     *)
(* modelled as a boxing / unboxing pair.                                   *)
(***************************************************************************)
EXTENDS Integers, Sequences, FiniteSets, TLC

\* ------------------------------------------------------------------------
\* Bounds of the model
\* ------------------------------------------------------------------------
\* number of instants of InstantList at which the clock is observed
MaxInstant == 3

\* ------------------------------------------------------------------------
\* Signal cache: constants and value domains
\* ------------------------------------------------------------------------
COOLDOWN_SECONDS == 5 * 60
CACHE_TTL == 6 * 60 * 60

\* Two overlapping invocations of getOrFetchSignal: invocation 1 is a call
\* with any arguments, invocation 2 is loadPoiSignal(true) of an online client
\* (the "Refresh Sinyal" button) started while invocation 1 is in flight.
Callers == {1, 2}
Keys == {"poi:bbox1"}
TtlValues == {1, CACHE_TTL}
Payloads == {"p1", "p2"}
\* what a fetcher can throw: an Error with a message, or a non-Error value
Thrown == {[isError |-> TRUE, message |-> "Gagal mengambil POI"],
           [isError |-> FALSE, message |-> "timeout"]}
OptionSets == [forceRefresh : BOOLEAN, allowNetwork : BOOLEAN, allowStale : BOOLEAN]
\* the options loadPoiSignal(forceRefresh) passes
loadPoiSignalOptions(forceRefresh, isOnline) ==
    [forceRefresh |-> forceRefresh /\ isOnline, allowNetwork |-> isOnline, allowStale |-> TRUE]
ArgSets(c) ==
    IF c = 1
    THEN [key : Keys, ttlSeconds : TtlValues, options : OptionSets]
    ELSE [key : Keys, ttlSeconds : {CACHE_TTL}, options : {loadPoiSignalOptions(TRUE, TRUE)}]
\* what the fetcher of an invocation can resolve with and reject with
FetcherPayloads(c) == IF c = 1 THEN Payloads ELSE {"p2"}
FetcherThrows(c) == IF c = 1 THEN Thrown ELSE {e \in Thrown : e.isError}
\* values of Date.now() (ms) at which the event loop runs a step: both sides
\* of the 1 s freshness boundary and of the 5 min cooldown boundary
InstantList == <<0, 1000, 300000, 301000, 600000, 601000>>
Instants == {InstantList[i] : i \in 1..(IF MaxInstant <= Len(InstantList) THEN MaxInstant ELSE Len(InstantList))}

NoEntry == [absent |-> TRUE]
NullDate == [iso |-> -1]
Null == "null"
NoResult == [kind |-> "none"]
NoThrown == [isError |-> FALSE, message |-> "none"]
NoArgs == [key |-> "none", ttlSeconds |-> 0,
           options |-> [forceRefresh |-> FALSE, allowNetwork |-> FALSE, allowStale |-> FALSE]]
NoEvent == [caller |-> 0, kind |-> "none", args |-> NoArgs, read |-> NoEntry,
            thrown |-> NoThrown, payload |-> Null, value |-> NoResult]

ToISOString(ms) == [iso |-> ms]
GetTime(date) == date.iso

Max(a, b) == IF a >= b THEN a ELSE b
Min(a, b) == IF a <= b THEN a ELSE b

\* now: Date.now(); store: the signal_cache table; pc, args, cached, pending:
\* position and locals of each invocation; ev: what the step just taken did
\* (which invocation, which path of getOrFetchSignal, its arguments, the entry
\* it had read, what the fetcher threw, the value the promise settled with).
VARIABLES now, store, pc, args, cached, pending, ev

\* probe: the last freshness reading (an entry, an instant, what isCacheValid
\* and buildResult make of them).
VARIABLES probe

\* weights: settings.weights; nUpdates: updates applied so far; eng: the last
\* call of the scoring engine with its inputs and outputs.
VARIABLES weights, nUpdates, eng

\* feat: the last call of buildCellFeatures with its inputs and its outcome;
\* rec: the last call of recommendTopCells with its inputs and its outcome.
\* history: the trips loaded from db.trips.
VARIABLES feat, rec, history

\* bin: the last call of binPointsToH3 with its inputs and its output.
VARIABLES bin

\* staticCache: the service worker's STATIC_CACHE (url -> stored response);
\* swInstalled: the install event has completed; swEv: the last fetch event
\* and what the worker answered.
VARIABLES staticCache, swInstalled, swEv

\* retry: the position and locals of one call of fetchWithRetry (the route
\* it serves, attempt, lastError), the outcomes of the attempts made and the
\* delays waited so far, and what the call returned or threw.
VARIABLES retry

\* sessions: the sessions table (id -> session); sessionNow: the clock the
\* session operations read; scall: the position and locals of each call of a
\* session operation; squeue: the calls whose request to the table is
\* outstanding, in the order the requests were issued; ncalls: the calls made
\* so far; sev: what the call that just returned did.
VARIABLES sessions, sessionNow, scall, squeue, ncalls, sev

\* draftTripStart: DriveClient's draft of the order in progress; settingsState:
\* the weights of the settings the component holds (its live query);
\* settingsDb: the weights stored in db.settings; tripsDb: db.trips; finish:
\* the position and closure of each invocation of handleFinishOrder; norders:
\* the orders started so far; oev: what the invocation that just finished did.
VARIABLES draftTripStart, settingsState, settingsDb, tripsDb, finish, norders, oev

cacheVars == <<now, store, pc, args, cached, pending, ev>>
probeVars == <<probe>>
engineVars == <<weights, nUpdates, eng>>
recommendVars == <<feat, rec, history>>
binVars == <<bin>>
swVars == <<staticCache, swInstalled, swEv>>
retryVars == <<retry>>
sessionVars == <<sessions, sessionNow, scall, squeue, ncalls, sev>>
orderVars == <<draftTripStart, settingsState, settingsDb, tripsDb, finish, norders, oev>>
vars == <<cacheVars, probeVars, engineVars, recommendVars, binVars, swVars, retryVars,
          sessionVars, orderVars>>
\* the variables each component leaves alone
outsideCache == <<probeVars, engineVars, recommendVars, binVars, swVars, retryVars, sessionVars, orderVars>>
outsideProbe == <<cacheVars, engineVars, recommendVars, binVars, swVars, retryVars, sessionVars, orderVars>>
outsideEngine == <<cacheVars, probeVars, recommendVars, binVars, swVars, retryVars, sessionVars, orderVars>>
outsideRecommend == <<cacheVars, probeVars, engineVars, binVars, swVars, retryVars, sessionVars, orderVars>>
outsideBin == <<cacheVars, probeVars, engineVars, recommendVars, swVars, retryVars, sessionVars, orderVars>>
outsideSw == <<cacheVars, probeVars, engineVars, recommendVars, binVars, retryVars, sessionVars, orderVars>>
outsideRetry == <<cacheVars, probeVars, engineVars, recommendVars, binVars, swVars, sessionVars, orderVars>>
outsideSession == <<cacheVars, probeVars, engineVars, recommendVars, binVars, swVars, retryVars, orderVars>>
outsideOrder == <<cacheVars, probeVars, engineVars, recommendVars, binVars, swVars, retryVars, sessionVars>>

\* ------------------------------------------------------------------------
\* Pure helpers of lib/signals.ts
\* ------------------------------------------------------------------------
\* bug: the boundary instant counts as fresh
isCacheValid_inclusive(cache, t) ==
    t - GetTime(cache.fetchedAt) <= cache.ttlSeconds * 1000

isCacheValid(cache, t) ==
    t - GetTime(cache.fetchedAt) < cache.ttlSeconds * 1000

\* bug: the cooldown is compared in seconds against a difference in ms
isInCooldown_seconds(cache, t) ==
    IF cache.lastErrorAt = NullDate
    THEN FALSE
    ELSE t - GetTime(cache.lastErrorAt) < COOLDOWN_SECONDS

isInCooldown(cache, t) ==
    IF cache.lastErrorAt = NullDate
    THEN FALSE
    ELSE t - GetTime(cache.lastErrorAt) < COOLDOWN_SECONDS * 1000

getAgeSeconds(fetchedAt, t) ==
    Max(0, (t - GetTime(fetchedAt)) \div 1000)

buildResult(cache, fromCache, t) ==
    LET ageSeconds == getAgeSeconds(cache.fetchedAt, t)
        isFresh == ageSeconds < cache.ttlSeconds
        isStale == ~isFresh
    IN [kind |-> "ok",
        payload |-> cache.payload,
        meta |-> [fetchedAt |-> cache.fetchedAt,
                  isFresh |-> isFresh,
                  isStale |-> isStale,
                  ageSeconds |-> ageSeconds,
                  ttlSeconds |-> cache.ttlSeconds,
                  fromCache |-> fromCache,
                  lastErrorAt |-> cache.lastErrorAt,
                  lastErrorMessage |-> cache.lastErrorMessage]]

OfflineError == [isError |-> TRUE, message |-> "Offline dan cache belum tersedia."]
Rejected(err) == [kind |-> "error", error |-> err]

errorMessageOf(err) ==
    IF err.isError THEN err.message ELSE "Gagal mengambil sinyal"

Event(c, kind, read, err, payload, value) ==
    [caller |-> c, kind |-> kind, args |-> args[c], read |-> read,
     thrown |-> err, payload |-> payload, value |-> value]

\* ------------------------------------------------------------------------
\* Initial state: empty store, no call in progress
\* ------------------------------------------------------------------------
InFlight(c) == pc[c] # "idle"

\* The clock moves on between two steps of the event loop.
Tick ==
    /\ \E t \in Instants : t > now /\ now' = t
    /\ ev' = NoEvent
    /\ UNCHANGED <<store, pc, args, cached, pending, outsideCache>>

\* getOrFetchSignal(key, ttlSeconds, fetcher, options) up to the first await:
\* the options are defaulted and db.signal_cache.get(key) is issued.
Call(c) ==
    /\ pc[c] = "idle"
    /\ c = 2 => InFlight(1)
    /\ \E a \in ArgSets(c) : args' = [args EXCEPT ![c] = a]
    /\ pc' = [pc EXCEPT ![c] = "get"]
    /\ ev' = NoEvent
    /\ UNCHANGED <<now, store, cached, pending, outsideCache>>

\* bug: allowStale is ignored, a stale entry is never served without a fetch
branchOf_ignoresAllowStale(entry, o, t) ==
    IF ~o.forceRefresh /\ entry # NoEntry /\ isCacheValid(entry, t)
    THEN "serve"
    ELSE IF entry # NoEntry /\ isInCooldown(entry, t)
    THEN "cooldown"
    ELSE IF ~o.allowNetwork
    THEN (IF entry # NoEntry THEN "offlineCache" ELSE "offlineThrow")
    ELSE "fetch"

\* bug: allowNetwork only guards the case with a cached entry
branchOf_fetchesOffline(entry, o, t) ==
    IF ~o.forceRefresh /\ entry # NoEntry /\ (isCacheValid(entry, t) \/ o.allowStale)
    THEN "serve"
    ELSE IF entry # NoEntry /\ isInCooldown(entry, t)
    THEN "cooldown"
    ELSE IF ~o.allowNetwork /\ entry # NoEntry
    THEN "offlineCache"
    ELSE "fetch"

\* bug: a forced refresh goes to the network even when allowNetwork is false
branchOf_forcedOffline(entry, o, t) ==
    IF ~o.forceRefresh /\ entry # NoEntry /\ (isCacheValid(entry, t) \/ o.allowStale)
    THEN "serve"
    ELSE IF entry # NoEntry /\ isInCooldown(entry, t)
    THEN "cooldown"
    ELSE IF ~o.allowNetwork /\ ~o.forceRefresh
    THEN (IF entry # NoEntry THEN "offlineCache" ELSE "offlineThrow")
    ELSE "fetch"

\* The branch lines 38-51 take for the entry read, decided with one reading
\* of the clock.
branchOf(entry, o, t) ==
    IF ~o.forceRefresh /\ entry # NoEntry /\ (isCacheValid(entry, t) \/ o.allowStale)
    THEN "serve"
    ELSE IF entry # NoEntry /\ isInCooldown(entry, t)
    THEN "cooldown"
    ELSE IF ~o.allowNetwork
    THEN (IF entry # NoEntry THEN "offlineCache" ELSE "offlineThrow")
    ELSE "fetch"

\* The read resolves: an early return, the offline rejection, or the fetcher
\* is invoked.
GetDone(c) ==
    /\ pc[c] = "get"
    /\ LET entry == store[args[c].key]
           b == branchOf(entry, args[c].options, now)
       IN IF b \in {"serve", "cooldown", "offlineCache"}
          THEN /\ ev' = Event(c, b, entry, NoThrown, Null, buildResult(entry, TRUE, now))
               /\ pc' = [pc EXCEPT ![c] = "idle"]
               /\ args' = [args EXCEPT ![c] = NoArgs]
               /\ cached' = cached
          ELSE IF b = "offlineThrow"
          THEN /\ ev' = Event(c, b, entry, NoThrown, Null, Rejected(OfflineError))
               /\ pc' = [pc EXCEPT ![c] = "idle"]
               /\ args' = [args EXCEPT ![c] = NoArgs]
               /\ cached' = cached
          ELSE /\ ev' = Event(c, "fetchStart", entry, NoThrown, Null, NoResult)
               /\ pc' = [pc EXCEPT ![c] = "fetch"]
               /\ args' = args
               /\ cached' = [cached EXCEPT ![c] = entry]
    /\ UNCHANGED <<now, store, pending, outsideCache>>

\* bug: the error timestamp is set instead of cleared
successRecord_keepsError(k, ttl, payload, t) ==
    [key |-> k,
     fetchedAt |-> ToISOString(t),
     ttlSeconds |-> ttl,
     payload |-> payload,
     lastErrorAt |-> ToISOString(t),
     lastErrorMessage |-> Null]

\* The record a successful fetch stores.
successRecord(k, ttl, payload, t) ==
    [key |-> k,
     fetchedAt |-> ToISOString(t),
     ttlSeconds |-> ttl,
     payload |-> payload,
     lastErrorAt |-> NullDate,
     lastErrorMessage |-> Null]

\* The fetcher resolves with a payload: the new record is built and its put
\* is issued.
FetchResolve(c) ==
    /\ pc[c] = "fetch"
    /\ \E p \in FetcherPayloads(c) :
          /\ pending' = [pending EXCEPT ![c] =
                            successRecord(args[c].key, args[c].ttlSeconds, p, now)]
          /\ ev' = Event(c, "resolved", cached[c], NoThrown, p, NoResult)
    /\ pc' = [pc EXCEPT ![c] = "putOk"]
    /\ UNCHANGED <<now, store, args, cached, outsideCache>>

\* bug: the failed fetch also stamps fetchedAt
errorRecord_restamps(entry, err, t) ==
    [entry EXCEPT !.fetchedAt = ToISOString(t),
                  !.lastErrorAt = ToISOString(t),
                  !.lastErrorMessage = errorMessageOf(err)]

\* The record a failed fetch stores over an existing entry.
errorRecord(entry, err, t) ==
    [entry EXCEPT !.lastErrorAt = ToISOString(t),
                  !.lastErrorMessage = errorMessageOf(err)]

\* bug: without a cached entry an entry holding only the error is stored
catchBlock_alwaysStores(entry, err, t) ==
    IF entry # NoEntry
    THEN [rethrow |-> FALSE, updated |-> errorRecord(entry, err, t)]
    ELSE [rethrow |-> FALSE,
          updated |-> [key |-> "poi:bbox1", fetchedAt |-> ToISOString(t), ttlSeconds |-> 0,
                       payload |-> Null, lastErrorAt |-> ToISOString(t),
                       lastErrorMessage |-> errorMessageOf(err)]]

\* The catch block: with a cached entry the entry is patched with the error,
\* without one the error is rethrown.
catchBlock(entry, err, t) ==
    IF entry # NoEntry
    THEN [rethrow |-> FALSE, updated |-> errorRecord(entry, err, t)]
    ELSE [rethrow |-> TRUE, updated |-> NoEntry]

\* The fetcher rejects: the put of the patched entry is issued, or the
\* promise rejects with what the fetcher threw.
FetchReject(c) ==
    /\ pc[c] = "fetch"
    /\ \E e \in FetcherThrows(c) :
          LET cb == catchBlock(cached[c], e, now)
          IN IF ~cb.rethrow
             THEN /\ pending' = [pending EXCEPT ![c] = cb.updated]
                  /\ pc' = [pc EXCEPT ![c] = "putErr"]
                  /\ ev' = Event(c, "rejected", cached[c], e, Null, NoResult)
                  /\ args' = args
             ELSE /\ pending' = pending
                  /\ pc' = [pc EXCEPT ![c] = "idle"]
                  /\ ev' = Event(c, "fetchErrThrown", cached[c], e, Null, Rejected(e))
                  /\ args' = [args EXCEPT ![c] = NoArgs]
    /\ UNCHANGED <<now, store, cached, outsideCache>>

\* db.signal_cache.put(record) completes and the result is built.
PutDone(c) ==
    /\ pc[c] \in {"putOk", "putErr"}
    /\ store' = [store EXCEPT ![pending[c].key] = pending[c]]
    /\ ev' = Event(c, IF pc[c] = "putOk" THEN "fetchOk" ELSE "fetchErrPatched",
                   cached[c], NoThrown, pending[c].payload,
                   buildResult(pending[c], pc[c] = "putErr", now))
    /\ pc' = [pc EXCEPT ![c] = "idle"]
    /\ args' = [args EXCEPT ![c] = NoArgs]
    /\ cached' = [cached EXCEPT ![c] = NoEntry]
    /\ pending' = [pending EXCEPT ![c] = NoEntry]
    /\ UNCHANGED <<now, outsideCache>>

NextCache ==
    \/ Tick
    \/ \E c \in Callers : Call(c)
    \/ \E c \in Callers : GetDone(c)
    \/ \E c \in Callers : FetchResolve(c)
    \/ \E c \in Callers : FetchReject(c)
    \/ \E c \in Callers : PutDone(c)

\* ------------------------------------------------------------------------
\* Freshness readings: isCacheValid and buildResult on the same entry at the
\* same instant, at ages that are not whole seconds
\* ------------------------------------------------------------------------
ProbeFetchedAt == {0, 1, 500, 1000}
ProbeAges == {-1, 0, 1, 999, 1000, 1001, 1999, 2000, 2001, 2999, 3000,
              CACHE_TTL * 1000 - 1, CACHE_TTL * 1000, CACHE_TTL * 1000 + 999}
ProbeTtls == {1, 2, 3, CACHE_TTL}
NoProbe == [entry |-> NoEntry, at |-> 0, valid |-> FALSE, result |-> NoResult]

\* An entry written by a successful fetch is read at some instant.
Probe ==
    /\ \E f \in ProbeFetchedAt, ttl \in ProbeTtls, age \in ProbeAges, p \in Payloads, k \in Keys :
          LET entry == successRecord(k, ttl, p, f)
              t == f + age
          IN probe' = [entry |-> entry, at |-> t,
                       valid |-> isCacheValid(entry, t),
                       result |-> buildResult(entry, TRUE, t)]
    /\ UNCHANGED outsideProbe

NextProbe == Probe

\* ------------------------------------------------------------------------
\* Scoring engine (lib/engine/scoring.ts, lib/engine/explain.ts) in exact
\* fixed-point arithmetic.
\*   weights        : 1.0 is WeightScale units
\*   scores, EPH    : 1.0 is EphScale units
\*   features       : 1.0 is FeatureScale units (recencyScore, rainRisk, log1p)
\*   score() output : 1.0 is WeightScale * 10 * FeatureScale units, so that
\*                    the factors 1.2 and 1.3 stay exact
\* ------------------------------------------------------------------------
WeightScale == 12 * 1000
EphScale == 2 * 5
FeatureScale == 10 * 10

defaultWeights ==
    [wInternal |-> WeightScale,
     wRecency |-> WeightScale \div 2,
     wPoi |-> WeightScale \div 4,
     wTravel |-> -((WeightScale * 6) \div 10),
     wRain |-> -((WeightScale * 2) \div 10)]

\* Math.log1p on 0..10, in FeatureScale units (rounded to two decimals)
Log1pTable == <<0, 69, 110, 139, 161, 179, 195, 208, 220, 230, 240>>
log1p(x) == Log1pTable[x + 1]

\* scoring.ts
normalizeLog(value) == log1p(Max(value, 0))

\* bug: the rain adjustment is dropped, every weight keeps its base value
TimesTenths_unadjusted(w, tenths) == w * 10

\* weight * factor, the factor given in tenths
TimesTenths(w, tenths) == w * tenths

score(features, w) ==
    LET internalNorm == normalizeLog(features.internalEph)
        poiNorm == normalizeLog(features.poiCount)
        travelNorm == normalizeLog(features.travelCost)
        rainRisk == Min(Max(features.rainRiskNext3h, 0), FeatureScale)
        rainHeavy == rainRisk * 10 >= 6 * FeatureScale
        wPoiAdj == IF rainHeavy THEN TimesTenths(w.wPoi, 12) ELSE TimesTenths(w.wPoi, 10)
        wTravelAdj == IF rainHeavy THEN TimesTenths(w.wTravel, 13) ELSE TimesTenths(w.wTravel, 10)
    IN TimesTenths(w.wInternal, 10) * internalNorm
       + TimesTenths(w.wRecency, 10) * features.recencyScore
       + wPoiAdj * poiNorm
       + wTravelAdj * travelNorm
       + TimesTenths(w.wRain, 10) * rainRisk

\* bug: the ratio is not clipped
deltaOf_unclipped(predictedScoreAtStart, actualEph) ==
    LET safePred == Max(predictedScoreAtStart, EphScale)
    IN ((actualEph - safePred) * WeightScale) \div (safePred * 20)

\* The clipped ratio times the learning rate, in WeightScale units:
\* delta = clip((actualEph - safePred) / safePred, -0.2, 0.2) * 0.05
deltaOf(predictedScoreAtStart, actualEph) ==
    LET safePred == Max(predictedScoreAtStart, EphScale)
        ratioNum == actualEph - safePred
        ratioDen == safePred
        \* clipped = max(min(ratio, 0.2), -0.2) as a fraction
        clippedNum == IF 5 * ratioNum > ratioDen THEN 1
                      ELSE IF 5 * ratioNum < -ratioDen THEN -1 ELSE ratioNum
        clippedDen == IF 5 * ratioNum > ratioDen \/ 5 * ratioNum < -ratioDen
                      THEN 5 ELSE ratioDen
    IN (clippedNum * WeightScale) \div (clippedDen * 20)

\* bug: the travel weight is kept a cost, capped at 0
updateWeightsFromOutcome_travelCapped(predictedScoreAtStart, actualEph, w) ==
    LET delta == deltaOf(predictedScoreAtStart, actualEph)
    IN [w EXCEPT !.wInternal = w.wInternal + delta,
                 !.wRecency = w.wRecency + delta \div 2,
                 !.wPoi = w.wPoi + delta \div 3,
                 !.wTravel = Min(w.wTravel - delta \div 2, 0),
                 !.wRain = w.wRain - delta \div 3]

\* bug: the POI weight takes half of the delta instead of a third
updateWeightsFromOutcome_poiHalf(predictedScoreAtStart, actualEph, w) ==
    LET delta == deltaOf(predictedScoreAtStart, actualEph)
    IN [w EXCEPT !.wInternal = w.wInternal + delta,
                 !.wRecency = w.wRecency + delta \div 2,
                 !.wPoi = w.wPoi + delta \div 2,
                 !.wTravel = w.wTravel - delta \div 2,
                 !.wRain = w.wRain - delta \div 3]

updateWeightsFromOutcome(predictedScoreAtStart, actualEph, w) ==
    LET delta == deltaOf(predictedScoreAtStart, actualEph)
    IN [w EXCEPT !.wInternal = w.wInternal + delta,
                 !.wRecency = w.wRecency + delta \div 2,
                 !.wPoi = w.wPoi + delta \div 3,
                 !.wTravel = w.wTravel - delta \div 2,
                 !.wRain = w.wRain - delta \div 3]

\* bug: explain.ts normalises the magnitude instead of flooring at 0
explainNormalizeLog_abs(value) == log1p(IF value < 0 THEN -value ELSE value)

\* explain.ts
explainNormalizeLog(value) == log1p(Max(value, 0))

\* The five weighted terms explain() builds, before it sorts them.
contributions(features, w) ==
    LET internalNorm == explainNormalizeLog(features.internalEph)
        poiNorm == explainNormalizeLog(features.poiCount)
        travelNorm == explainNormalizeLog(features.travelCost)
        rainRisk == Min(Max(features.rainRiskNext3h, 0), FeatureScale)
        rainHeavy == rainRisk * 10 >= 6 * FeatureScale
        wPoiAdj == IF rainHeavy THEN TimesTenths(w.wPoi, 12) ELSE TimesTenths(w.wPoi, 10)
        wTravelAdj == IF rainHeavy THEN TimesTenths(w.wTravel, 13) ELSE TimesTenths(w.wTravel, 10)
    IN << [key |-> "internal",
           value |-> TimesTenths(w.wInternal, 10) * internalNorm,
           reason |-> "Riwayat jam ini bagus"],
          [key |-> "recency",
           value |-> TimesTenths(w.wRecency, 10) * features.recencyScore,
           reason |-> "Aktivitas terbaru mendukung"],
          [key |-> "poi",
           value |-> wPoiAdj * poiNorm,
           reason |-> "POI padat di sekitar"],
          [key |-> "travel",
           value |-> wTravelAdj * travelNorm,
           reason |-> IF features.travelKm <= 2 * EphScale
                      THEN "Dekat dari posisi sekarang" ELSE "Biaya pindah lumayan"],
          [key |-> "rain",
           value |-> TimesTenths(w.wRain, 10) * rainRisk,
           reason |-> IF rainHeavy
                      THEN "Risiko hujan tinggi (lebih baik indoor)"
                      ELSE "Cuaca relatif aman"] >>

\* bug: the terms are ranked by signed value, cost terms always come last
compareContribution_signed(a, b) == b.value - a.value

\* explain's comparator: (a, b) => Math.abs(b.value) - Math.abs(a.value)
compareContribution(a, b) ==
    (IF b.value < 0 THEN -b.value ELSE b.value) - (IF a.value < 0 THEN -a.value ELSE a.value)

\* Array.prototype.sort with explain's comparator. The sort is stable: an
\* element goes after every element the comparator puts before it and after
\* the earlier elements the comparator ties it with.
sortContributions(items) ==
    LET n == Len(items)
        before(j, i) == \/ compareContribution(items[j], items[i]) < 0
                        \/ compareContribution(items[j], items[i]) = 0 /\ j < i
        rank(i) == 1 + Cardinality({j \in 1..n : before(j, i)})
    IN [p \in 1..n |-> items[CHOOSE i \in 1..n : rank(i) = p]]

\* contributions.sort(...).slice(0, 3).map((item) => item.reason)
explain(features, w) ==
    LET sorted == sortContributions(contributions(features, w))
    IN [p \in 1..Min(3, Len(sorted)) |-> sorted[p].reason]

\* Inputs of the engine calls
MaxUpdates == 2
PredValues == {-10, 0, 5, 10, 20, 50}
EphValues == {0, 8, 9, 11, 12, 13, 17, 24, 45, 61, 1000}
FeatureSets ==
    [internalEph : {-2, 10},
     poiCount : {0, 6},
     travelCost : {0, 2},
     rainRiskNext3h : {-10, 59, 60, 120},
     recencyScore : {0, 50},
     travelKm : {10, 30}]
\* weight vectors a user can have saved in the settings
OtherWeights ==
    {[wInternal |-> 7, wRecency |-> -3, wPoi |-> 1, wTravel |-> 11, wRain |-> 0],
     [wInternal |-> 0, wRecency |-> 0, wPoi |-> WeightScale, wTravel |-> -WeightScale,
      wRain |-> -1]}
NoFeatures ==
    [internalEph |-> 0, poiCount |-> 0, travelCost |-> 0, rainRiskNext3h |-> 0,
     recencyScore |-> 0, travelKm |-> 0]
NoEngineCall ==
    [op |-> "none", predictedScoreAtStart |-> 0, actualEph |-> 0, before |-> defaultWeights,
     features |-> NoFeatures, weights |-> defaultWeights, score |-> 0, terms |-> <<>>,
     reasons |-> <<>>]

\* handleFinishOrder's weight update: the new vector replaces settings.weights.
UpdateWeights ==
    /\ nUpdates < MaxUpdates
    /\ \E p \in PredValues, a \in EphValues :
          /\ weights' = updateWeightsFromOutcome(p, a, weights)
          /\ eng' = [NoEngineCall EXCEPT !.op = "update", !.predictedScoreAtStart = p,
                                         !.actualEph = a, !.before = weights]
    /\ nUpdates' = nUpdates + 1
    /\ UNCHANGED outsideEngine

\* A long run of finished orders whose outcome is far from the prediction:
\* earnings of 0 against a prediction of 50, or of 1000 against 10.  Every
\* update is stored by updateSettings, which merges and normalises the
\* settings without touching the values of the weights.
MaxDrift == 125
DriftOutcomes == {<<50, 0>>, <<10, 1000>>}
DriftUpdate ==
    /\ nUpdates < MaxDrift
    /\ \E o \in DriftOutcomes :
          /\ weights' = updateWeightsFromOutcome(o[1], o[2], weights)
          /\ eng' = [NoEngineCall EXCEPT !.op = "update", !.predictedScoreAtStart = o[1],
                                         !.actualEph = o[2], !.before = weights]
    /\ nUpdates' = nUpdates + 1
    /\ UNCHANGED outsideEngine

\* recommendTopCells scores and explains one candidate's features.  The
\* outcome does not depend on the call before, so an evaluation is only taken
\* from a state that is not itself the outcome of an evaluation.
Evaluate ==
    /\ eng.op # "evaluate"
    /\ \E f \in FeatureSets, w \in {weights} \cup OtherWeights :
          eng' = [NoEngineCall EXCEPT !.op = "evaluate", !.features = f, !.weights = w,
                                      !.score = score(f, w),
                                      !.terms = contributions(f, w),
                                      !.reasons = explain(f, w)]
    /\ UNCHANGED <<weights, nUpdates, outsideEngine>>

NextEngine ==
    \/ UpdateWeights
    \/ Evaluate

NextDrift == DriftUpdate

\* ------------------------------------------------------------------------
\* lib/engine/features.ts and lib/engine/recommend.ts: buildCellFeatures and
\* recommendTopCells.  Coordinates are points of a small grid, one grid step
\* standing for one kilometre; instants are whole seconds (getTime() / 1000).
\* ------------------------------------------------------------------------
MaxTrips == 2
MaxCandidates == 4

HOUR == 60 * 60
DAY == 24 * HOUR
\* the instant of the call (new Date() in recommendTopCells)
CallInstant == 10 * DAY
\* a number, null and NaN as the value of a coordinate; null as the value of
\* poiCells or weather
Num(v) == [num |-> v]
NaN == [nan |-> TRUE]
NullValue == [null |-> TRUE]
\* 1 / 0 in recencyScore
\* 1 / 0 in FeatureScale units: a value above every finite recency score
Infinity == 1000000
\* what latLngToCell does with a coordinate that is not finite: h3-js raises
\* an H3Error; a build that returns no index is the other outcome
NaNOutcomes == {"throws", "noIndex"}
FineRes == 9
Resolutions == {FineRes - 1, FineRes}
NoIndex == [res |-> -1, i |-> 0, j |-> 0]
H3Error == [res |-> -2, i |-> 0, j |-> 0]

\* h3-js latLngToCell: the cell of a point at a resolution; one resolution
\* coarser doubles the edge of a cell.
latLngToCell(lat, lon, res, nanOutcome) ==
    IF lat = NaN \/ lon = NaN
    THEN IF nanOutcome = "throws" THEN H3Error ELSE NoIndex
    ELSE LET edge == IF res = FineRes THEN 1 ELSE 2
         IN [res |-> res, i |-> lat.num \div edge, j |-> lon.num \div edge]

\* h3-js cellToLatLng: the centre of a cell of the finest resolution
cellToLatLng(cell) == <<cell.i, cell.j>>

\* features.ts haversineKm, on the grid: the distance of two points in
\* tenths of a kilometre
haversineKm(a, b) ==
    LET dLat == IF b.lat >= a.lat THEN b.lat - a.lat ELSE a.lat - b.lat
        dLon == IF b.lon >= a.lon THEN b.lon - a.lon ELSE a.lon - b.lon
    IN EphScale * (dLat + dLon)

Cell(i) == [res |-> FineRes, i |-> i, j |-> 0]
Cells == {Cell(i) : i \in 0..3}
userLatLon == [lat |-> 1, lon |-> 0]

Trip(lat, lon, earnings, startedAt, endedAt) ==
    [startLat |-> lat, startLon |-> lon, earnings |-> earnings,
     startedAt |-> ToISOString(startedAt), endedAt |-> ToISOString(endedAt)]

\* The trips a history is made of: two past trips and one dated two days
\* ahead in cell 0 (earning 6, 3 and 9 per hour), a zero-length trip in cell 1
\* that ends at the instant of the call, a trip saved with null coordinates
\* and one saved with NaN coordinates (DriveModeClient.saveTrip when the
\* location is unavailable).
TripPool ==
    << Trip(Num(0), Num(0), 12, CallInstant - 3 * DAY - 2 * HOUR, CallInstant - 3 * DAY),
       Trip(Num(0), Num(0), 3, CallInstant - DAY - HOUR, CallInstant - DAY),
       Trip(Num(1), Num(0), 1, CallInstant, CallInstant),
       Trip(NullValue, NullValue, 10, CallInstant - HOUR, CallInstant),
       Trip(NaN, NaN, 10, CallInstant - HOUR, CallInstant),
       Trip(Num(0), Num(0), 9, CallInstant + 2 * DAY - HOUR, CallInstant + 2 * DAY) >>

RECURSIVE SubSeqOf(_, _, _)
\* the elements of pool whose index is in chosen, in pool order
SubSeqOf(pool, chosen, k) ==
    IF k > Len(pool) THEN <<>>
    ELSE IF k \in chosen THEN <<pool[k]>> \o SubSeqOf(pool, chosen, k + 1)
    ELSE SubSeqOf(pool, chosen, k + 1)

TripHistories ==
    {SubSeqOf(TripPool, chosen, 1) :
        chosen \in {c \in SUBSET (1..Len(TripPool)) : Cardinality(c) <= MaxTrips}}

\* poiCells: null or a Map from cell to POI count
PoiMaps ==
    {NullValue,
     [entries |-> [c \in {Cell(0), Cell(1), Cell(3)} |->
                     IF c = Cell(0) THEN 6 ELSE IF c = Cell(1) THEN 7 ELSE 5]],
     [entries |-> [c \in {Cell(0), Cell(2), Cell(3)} |->
                     IF c = Cell(0) THEN 0 ELSE IF c = Cell(2) THEN 6 ELSE 9]]}

HourlyEntry(time, p) == [time |-> ToISOString(time), precipitationProbability |-> p]
HourlyTimes == {CallInstant - 1, CallInstant, CallInstant + 3 * HOUR, CallInstant + 3 * HOUR + 1}
HourlyProbabilities == {-5, 60, 150}
HourlyEntries == {HourlyEntry(t, p) : t \in HourlyTimes, p \in HourlyProbabilities}
\* weather: null or a summary of at most two hourly entries
Weathers ==
    {NullValue} \cup {[hourly |-> h] : h \in {<<>>} \cup {<<e>> : e \in HourlyEntries}
                                       \cup {<<e1, e2>> : e1, e2 \in HourlyEntries}}
RecommendWeathers ==
    {NullValue, [hourly |-> <<HourlyEntry(CallInstant, 60)>>]}

RECURSIVE MaxOf(_)
\* Math.max(...values) of a non-empty list
MaxOf(values) ==
    IF Len(values) = 1 THEN values[1] ELSE Max(values[1], MaxOf(Tail(values)))

\* bug: the maximum probability is not clamped
computeRainRiskNext3h_unclamped(weather, nowMs) ==
    IF weather = NullValue
    THEN 0
    ELSE LET horizonMs == nowMs + 3 * HOUR
             InWindowEntry(entry) == GetTime(entry.time) >= nowMs /\ GetTime(entry.time) <= horizonMs
             inWindow == SelectSeq(weather.hourly, InWindowEntry)
         IN IF Len(inWindow) = 0
            THEN 0
            ELSE (MaxOf([k \in 1..Len(inWindow) |-> inWindow[k].precipitationProbability])
                    * FeatureScale) \div 100

\* features.ts computeRainRiskNext3h, the result in FeatureScale units
computeRainRiskNext3h(weather, nowMs) ==
    IF weather = NullValue
    THEN 0
    ELSE LET horizonMs == nowMs + 3 * HOUR
             InWindowEntry(entry) == GetTime(entry.time) >= nowMs /\ GetTime(entry.time) <= horizonMs
             inWindow == SelectSeq(weather.hourly, InWindowEntry)
         IN IF Len(inWindow) = 0
            THEN 0
            ELSE LET maxRisk == MaxOf([k \in 1..Len(inWindow) |->
                                          inWindow[k].precipitationProbability])
                 IN Min(Max((maxRisk * FeatureScale) \div 100, 0), FeatureScale)

RECURSIVE SumOver(_, _)
\* the sum of f over a finite set of indexes
SumOver(f, indexes) ==
    IF indexes = {} THEN 0
    ELSE LET k == CHOOSE x \in indexes : TRUE
         IN f[k] + SumOver(f, indexes \ {k})

\* 1 / (1 + daysSince) in FeatureScale units, daysSince = ageMs / DAY
recencyOf(ageMs) ==
    LET den == DAY + ageMs
    IN IF den = 0 THEN Infinity
       ELSE IF den > 0 THEN (FeatureScale * DAY) \div den
       ELSE -((FeatureScale * DAY) \div (-den))

\* bug: the duration of a trip is not floored at 0.1 h
tripHours_unfloored(trip) ==
    (GetTime(trip.endedAt) - GetTime(trip.startedAt)) \div (HOUR \div 10)

\* hours = Math.max((endedAt - startedAt) / 3_600_000, 0.1), in tenths of an hour
tripHours(trip) ==
    Max((GetTime(trip.endedAt) - GetTime(trip.startedAt)) \div (HOUR \div 10), 1)

\* features.ts buildCellFeatures.  threw: latLngToCell raised while the trips
\* were walked, or cellToLatLng was never reached.
buildCellFeatures(cellH3, trips, poiCells, weather, nowMs, settings, nanOutcome) ==
    LET n == Len(trips)
        withCoords == {k \in 1..n : ~(trips[k].startLat = NullValue
                                       \/ trips[k].startLon = NullValue)}
        tripCell(k) == latLngToCell(trips[k].startLat, trips[k].startLon,
                                    settings.preferredH3Res, nanOutcome)
        threw == \E k \in withCoords : tripCell(k) = H3Error
        matching == {k \in withCoords : tripCell(k) = cellH3}
        internalCount == Cardinality(matching)
        earningsSum == SumOver([k \in 1..n |-> trips[k].earnings], matching)
        hoursSum == SumOver([k \in 1..n |-> tripHours(trips[k])], matching)
        latestTripMs == IF matching = {} THEN 0
                        ELSE Max(0, MaxOf(SubSeqOf([k \in 1..n |-> GetTime(trips[k].endedAt)],
                                                   matching, 1)))
        internalEph == IF hoursSum > 0 THEN (earningsSum * 10) \div hoursSum ELSE 0
        recencyScore == IF latestTripMs # 0 THEN recencyOf(nowMs - latestTripMs) ELSE 0
        poiCount == IF poiCells = NullValue THEN 0
                    ELSE IF cellH3 \in DOMAIN poiCells.entries THEN poiCells.entries[cellH3]
                    ELSE 0
        rainRiskNext3h == computeRainRiskNext3h(weather, nowMs)
        centre == cellToLatLng(cellH3)
        travelKm == haversineKm(userLatLon, [lat |-> centre[1], lon |-> centre[2]])
        travelCost == (travelKm * settings.costPerKm) \div EphScale
    IN [threw |-> threw,
        features |-> [internalEph |-> internalEph, internalCount |-> internalCount,
                      recencyScore |-> recencyScore, poiCount |-> poiCount,
                      rainRiskNext3h |-> rainRiskNext3h, travelKm |-> travelKm,
                      travelCost |-> travelCost]]

\* 1.0 of a score, and the exploration bonus of 0.25
ScoreOne == WeightScale * 10 * FeatureScale
ExplorationBonus == ScoreOne \div 4

\* bug: the bonus does not look at the POI count
explorationBonus_anyPoi(features, random, explorationRate) ==
    IF features.internalCount <= 1 /\ random < explorationRate THEN ExplorationBonus ELSE 0

\* recommend.ts: the amount added to the score of one candidate; random is
\* the value of Math.random(), in hundredths like explorationRate
explorationBonus(features, random, explorationRate) ==
    IF features.internalCount <= 1 /\ features.poiCount >= 6 /\ random < explorationRate
    THEN ExplorationBonus
    ELSE 0

\* bug: ascending scores
compareScore_ascending(a, b) == a.score - b.score

\* recommend.ts comparator: (a, b) => b.score - a.score
compareScore(a, b) == b.score - a.score

\* Array.prototype.sort with recommendTopCells' comparator (stable)
sortScored(items) ==
    LET n == Len(items)
        before(j, i) == \/ compareScore(items[j], items[i]) < 0
                        \/ compareScore(items[j], items[i]) = 0 /\ j < i
        rank(i) == 1 + Cardinality({j \in 1..n : before(j, i)})
    IN [p \in 1..n |-> items[CHOOSE i \in 1..n : rank(i) = p]]

\* recommend.ts recommendTopCells.  randoms[k] is what Math.random() returns
\* for the k-th candidate.  scored is the mapped list before the sort.
recommendTopCells(candidateCells, trips, poiCells, weather, settings, nowMs, randoms, nanOutcome) ==
    LET n == Len(candidateCells)
        built == [k \in 1..n |-> buildCellFeatures(candidateCells[k], trips, poiCells, weather,
                                                   nowMs, settings, nanOutcome)]
        threw == \E k \in 1..n : built[k].threw
        scored == [k \in 1..n |->
                     LET features == built[k].features
                     IN [cell |-> candidateCells[k],
                         score |-> score(features, settings.weights)
                                     + explorationBonus(features, randoms[k],
                                                        settings.explorationRate),
                         reasons |-> explain(features, settings.weights),
                         features |-> features]]
    IN IF threw
       THEN [threw |-> TRUE, scored |-> <<>>, top |-> <<>>]
       ELSE [threw |-> FALSE, scored |-> scored,
             top |-> SubSeq(sortScored(scored), 1, Min(3, n))]

\* candidateCells: the keys of a Map, so distinct cells in some order
RECURSIVE Arrangements(_, _)
Arrangements(cells, maxLen) ==
    IF maxLen = 0 \/ cells = {} THEN {<<>>}
    ELSE {<<>>} \cup {<<c>> \o rest : c \in cells, rest \in Arrangements(cells, maxLen - 1)}
CandidateLists ==
    {l \in Arrangements(Cells, MaxCandidates) :
        \A p, q \in 1..Len(l) : p # q => l[p] # l[q]}

\* settings: the default weights, 8% or no exploration, 2 per kilometre
SettingsSets ==
    [weights : {defaultWeights}, explorationRate : {0, 8}, costPerKm : {2},
     preferredH3Res : {FineRes}]
RandomDraws ==
    {[k \in 1..MaxCandidates |-> 0], [k \in 1..MaxCandidates |-> 50],
     [k \in 1..MaxCandidates |-> IF k % 2 = 1 THEN 0 ELSE 50],
     [k \in 1..MaxCandidates |-> IF k % 2 = 1 THEN 50 ELSE 0]}

\* the outcomes latLngToCell can have on the trips of a history
NaNOutcomesFor(trips) ==
    IF \E k \in 1..Len(trips) : trips[k].startLat = NaN THEN NaNOutcomes ELSE {"throws"}

\* the instants at which buildCellFeatures is called: the instant of the
\* recommendation and the same time on the next day
FeatureInstants == {CallInstant, CallInstant + DAY}

NoFeat == [op |-> "none"]
NoRec == [op |-> "none"]

\* The component loads the trips from db.trips.
LoadTrips ==
    /\ feat = NoFeat
    /\ rec = NoRec
    /\ history' \in TripHistories
    /\ UNCHANGED <<feat, rec, outsideRecommend>>

\* One call of buildCellFeatures.
BuildFeatures ==
    /\ feat = NoFeat
    /\ rec = NoRec
    /\ \E cellH3 \in Cells, poiCells \in PoiMaps, weather \in Weathers,
          settings \in SettingsSets, nanOutcome \in NaNOutcomesFor(history),
          nowMs \in FeatureInstants :
          /\ settings.explorationRate = 0
          /\ feat' = [op |-> "buildCellFeatures", cellH3 |-> cellH3, trips |-> history,
                      poiCells |-> poiCells, weather |-> weather, now |-> nowMs,
                      settings |-> settings, nanOutcome |-> nanOutcome,
                      out |-> buildCellFeatures(cellH3, history, poiCells, weather, nowMs,
                                                settings, nanOutcome)]
    /\ UNCHANGED <<rec, history, outsideRecommend>>

\* One call of recommendTopCells.
Recommend ==
    /\ feat = NoFeat
    /\ rec = NoRec
    /\ \E candidateCells \in CandidateLists, poiCells \in PoiMaps,
          weather \in RecommendWeathers, settings \in SettingsSets, randoms \in RandomDraws,
          nanOutcome \in NaNOutcomesFor(history) :
          rec' = [op |-> "recommendTopCells", candidateCells |-> candidateCells,
                  trips |-> history, poiCells |-> poiCells, weather |-> weather,
                  settings |-> settings, randoms |-> randoms, nanOutcome |-> nanOutcome,
                  out |-> recommendTopCells(candidateCells, history, poiCells, weather,
                                            settings, CallInstant, randoms, nanOutcome)]
    /\ UNCHANGED <<feat, history, outsideRecommend>>

\* The caller takes the outcome (setRecommendations, or its catch block).
TakeOutcome ==
    /\ feat # NoFeat \/ rec # NoRec
    /\ feat' = NoFeat
    /\ rec' = NoRec
    /\ UNCHANGED <<history, outsideRecommend>>

NextRecommend ==
    \/ LoadTrips
    \/ BuildFeatures
    \/ Recommend
    \/ TakeOutcome

\* ------------------------------------------------------------------------
\* lib/h3.ts: binPointsToH3
\* ------------------------------------------------------------------------
MaxPoints == 3

\* a point without a value field
Undefined == [undefined |-> TRUE]
PointInput(lat, lon, value) == [lat |-> lat, lon |-> lon, value |-> value]
PointInputs ==
    {PointInput(Num(lat), Num(0), value) : lat \in 0..2, value \in {Undefined, Num(0), Num(3)}}
RECURSIVE SeqsUpTo(_, _)
SeqsUpTo(S, maxLen) ==
    IF maxLen = 0 THEN {<<>>}
    ELSE {<<>>} \cup {<<x>> \o rest : x \in S, rest \in SeqsUpTo(S, maxLen - 1)}
PointLists == SeqsUpTo(PointInputs, MaxPoints)

\* bug: point.value || 1, a value of 0 counts as 1
valueOrOne_falsy(point) ==
    IF point.value \in {Undefined, NullValue, Num(0)} THEN 1 ELSE point.value.num

\* point.value ?? 1
valueOrOne(point) ==
    IF point.value \in {Undefined, NullValue} THEN 1 ELSE point.value.num

RECURSIVE binsAfter(_, _, _)
\* bins after the first n points: the Map as the list of its entries in
\* insertion order
binsAfter(points, resolution, n) ==
    IF n = 0 THEN <<>>
    ELSE LET bins == binsAfter(points, resolution, n - 1)
             point == points[n]
             cell == latLngToCell(point.lat, point.lon, resolution, "throws")
             value == valueOrOne(point)
         IN IF \E p \in 1..Len(bins) : bins[p].cell = cell
            THEN [p \in 1..Len(bins) |->
                    IF bins[p].cell = cell
                    THEN [cell |-> cell, value |-> bins[p].value + value]
                    ELSE bins[p]]
            ELSE Append(bins, [cell |-> cell, value |-> 0 + value])

\* h3.ts binPointsToH3
binPointsToH3(points, resolution) == binsAfter(points, resolution, Len(points))

NoBin == [op |-> "none"]

\* One call of binPointsToH3.
BinPoints ==
    /\ bin = NoBin
    /\ \E points \in PointLists, resolution \in Resolutions :
          bin' = [op |-> "binPointsToH3", points |-> points, resolution |-> resolution,
                  out |-> binPointsToH3(points, resolution)]
    /\ UNCHANGED outsideBin

\* The caller takes the cells (h3CellsToGeoJSON).
TakeBins ==
    /\ bin # NoBin
    /\ bin' = NoBin
    /\ UNCHANGED outsideBin

NextBin ==
    \/ BinPoints
    \/ TakeBins

\* ------------------------------------------------------------------------
\* public/sw.js: the install and fetch listeners, networkFirst and
\* cacheFirst on STATIC_CACHE.  Requests to /api/signals/, to the tile
\* server and to other runtime URLs go to caches of their own and are not
\* part of this model.
\* ------------------------------------------------------------------------
APP_SHELL == <<"/", "/heatmap", "/wallet", "/offline">>
NavigationUrls == {"/", "/heatmap", "/wallet", "/offline", "/drive"}
AssetUrls == {"/_next/static/app.js"}
Urls == NavigationUrls \cup AssetUrls
Methods == {"GET", "POST"}
Modes == {"navigate", "no-cors"}
\* the revisions of a page the server can answer with
Revisions == {1, 2}
NoResponse == [absent |-> TRUE]
Response(url, status, revision) == [url |-> url, status |-> status, revision |-> revision]
\* response.ok
IsOk(response) == response.status >= 200 /\ response.status <= 299
\* what fetch(request) does: it rejects, or resolves with a response
NetworkError == [failed |-> TRUE]
NetworkOutcomes(url) ==
    {NetworkError} \cup {Response(url, 200, r) : r \in Revisions} \cup {Response(url, 500, 1)}
Requests ==
    {[method |-> m, mode |-> md, url |-> u] :
        m \in Methods, md \in Modes, u \in Urls}
EmptyCache == [u \in Urls |-> NoResponse]
NoAnswer == [kind |-> "none"]
Answered(response) == [kind |-> "response", response |-> response]
AnswerRejected == [kind |-> "rejected"]

\* bug: the fallback page is tried before the cached response of the request
networkFirst_fallbackFirst(cache, url, net, fallbackUrl) ==
    IF net # NetworkError
    THEN [answer |-> Answered(net),
          cache |-> IF IsOk(net) THEN [cache EXCEPT ![url] = net] ELSE cache]
    ELSE IF fallbackUrl # Null /\ cache[fallbackUrl] # NoResponse
         THEN [answer |-> Answered(cache[fallbackUrl]), cache |-> cache]
         ELSE IF cache[url] # NoResponse
              THEN [answer |-> Answered(cache[url]), cache |-> cache]
              ELSE [answer |-> AnswerRejected, cache |-> cache]

\* sw.js networkFirst: the answer and the cache it leaves
networkFirst(cache, url, net, fallbackUrl) ==
    IF net # NetworkError
    THEN [answer |-> Answered(net),
          cache |-> IF IsOk(net) THEN [cache EXCEPT ![url] = net] ELSE cache]
    ELSE IF cache[url] # NoResponse
         THEN [answer |-> Answered(cache[url]), cache |-> cache]
         ELSE IF fallbackUrl # Null /\ cache[fallbackUrl] # NoResponse
              THEN [answer |-> Answered(cache[fallbackUrl]), cache |-> cache]
              ELSE [answer |-> AnswerRejected, cache |-> cache]

\* sw.js cacheFirst
cacheFirst(cache, url, net) ==
    IF cache[url] # NoResponse
    THEN [answer |-> Answered(cache[url]), cache |-> cache]
    ELSE IF net = NetworkError
         THEN [answer |-> AnswerRejected, cache |-> cache]
         ELSE [answer |-> Answered(net),
               cache |-> IF IsOk(net) THEN [cache EXCEPT ![url] = net] ELSE cache]

\* sw.js fetch listener, for navigations and static assets
fetchListener(cache, request, net) ==
    IF request.method # "GET"
    THEN [intercepted |-> FALSE, answer |-> NoAnswer, cache |-> cache]
    ELSE IF request.mode = "navigate"
         THEN [intercepted |-> TRUE] @@ networkFirst(cache, request.url, net, "/offline")
         ELSE [intercepted |-> TRUE] @@ cacheFirst(cache, request.url, net)

NoFetchEvent == [op |-> "none"]

\* install: cache.addAll(APP_SHELL) stores the four pages, all fetched with
\* an ok response (addAll rejects otherwise and the worker is not installed).
Install ==
    /\ ~swInstalled
    /\ \E r \in Revisions :
          staticCache' = [u \in Urls |->
                            IF \E k \in 1..Len(APP_SHELL) : APP_SHELL[k] = u
                            THEN Response(u, 200, r) ELSE NoResponse]
    /\ swInstalled' = TRUE
    /\ swEv' = NoFetchEvent
    /\ UNCHANGED outsideSw

\* One fetch event, from the request to the settled answer.
FetchEvent ==
    /\ swInstalled
    /\ \E request \in Requests :
          /\ request.mode = "navigate" <=> request.url \in NavigationUrls
          /\ \E net \in NetworkOutcomes(request.url) :
                LET handled == fetchListener(staticCache, request, net)
                IN /\ staticCache' = handled.cache
                   /\ swEv' = [op |-> "fetch", request |-> request, net |-> net,
                               before |-> staticCache, intercepted |-> handled.intercepted,
                               answer |-> handled.answer]
    /\ UNCHANGED <<swInstalled, outsideSw>>

\* The browser drops the origin's cache storage; caches.open(STATIC_CACHE)
\* then gives an empty cache.
EvictStorage ==
    /\ swInstalled
    /\ staticCache # EmptyCache
    /\ staticCache' = EmptyCache
    /\ swEv' = NoFetchEvent
    /\ UNCHANGED <<swInstalled, outsideSw>>

NextSw ==
    \/ Install
    \/ FetchEvent
    \/ EvictStorage

\* ------------------------------------------------------------------------
\* app/api/signals/poi/route.ts and weather/route.ts: fetchWithRetry
\* ------------------------------------------------------------------------
RETRY_DELAYS_MS == <<500, 1500>>
Routes == {"poi", "weather"}
\* what one fetch(url, ...) settles with: a response with a status, a
\* rejection (network failure), or the AbortError of the 12 s timeout
HttpStatuses == {200, 204, 429, 504}
UpstreamResponse(status) == [kind |-> "response", status |-> status]
UpstreamRejection(message) == [kind |-> "rejection", status |-> 0, message |-> message]
FetchOutcomes ==
    {UpstreamResponse(st) : st \in HttpStatuses}
       \cup {UpstreamRejection("fetch failed"),
             UpstreamRejection("This operation was aborted")}
\* response.ok
ResponseOk(response) == response.status >= 200 /\ response.status <= 299
NoError == [message |-> "none", status |-> 0]
NoUpstreamResponse == [kind |-> "none", status |-> 0]
\* new Error(`Overpass gagal: ${response.status}`) and its weather twin
StatusError(route, status) ==
    [message |-> IF route = "poi" THEN "Overpass gagal" ELSE "Open-Meteo gagal",
     status |-> status]

\* bug: any response is returned, whatever its status
thrownBy_anyResponse(route, outcome) ==
    IF outcome.kind = "response"
    THEN NoError
    ELSE [message |-> outcome.message, status |-> 0]

\* What the try block of one attempt throws (NoError: it returns the
\* response): the rejection of fetch, or the error raised for a status that
\* is not ok.  What fetch rejects with is an Error, so the catch block keeps it.
thrownBy(route, outcome) ==
    IF outcome.kind = "response"
    THEN (IF ResponseOk(outcome) THEN NoError ELSE StatusError(route, outcome.status))
    ELSE [message |-> outcome.message, status |-> 0]

NoRetry ==
    [pc |-> "idle", route |-> "none", attempt |-> 0, lastError |-> NoError,
     outcomes |-> <<>>, waited |-> <<>>, returned |-> NoUpstreamResponse, thrown |-> NoError]

\* A route handler calls fetchWithRetry: attempt 0 issues its fetch.
RetryCall ==
    /\ retry.pc = "idle"
    /\ \E route \in Routes : retry' = [NoRetry EXCEPT !.pc = "fetch", !.route = route]
    /\ UNCHANGED outsideRetry

\* The fetch of the current attempt settles.  An ok response is returned.
\* Otherwise the catch block records the error and, before the last attempt,
\* starts the delay of this attempt; after the last attempt the loop ends
\* and lastError is thrown.
FetchSettles ==
    /\ retry.pc = "fetch"
    /\ \E outcome \in FetchOutcomes :
          LET error == thrownBy(retry.route, outcome)
              outcomes == Append(retry.outcomes, outcome)
          IN IF error = NoError
             THEN retry' = [retry EXCEPT !.pc = "returned", !.outcomes = outcomes,
                                         !.returned = outcome]
             ELSE IF retry.attempt < Len(RETRY_DELAYS_MS)
             THEN retry' = [retry EXCEPT !.pc = "wait", !.outcomes = outcomes,
                                         !.lastError = error]
             ELSE retry' = [retry EXCEPT !.pc = "thrown", !.outcomes = outcomes,
                                         !.lastError = error,
                                         !.attempt = retry.attempt + 1,
                                         !.thrown = error]
    /\ UNCHANGED outsideRetry

\* The delay RETRY_DELAYS_MS[attempt] has passed: the next attempt starts.
DelayPassed ==
    /\ retry.pc = "wait"
    /\ retry' = [retry EXCEPT !.pc = "fetch", !.attempt = retry.attempt + 1,
                              !.waited = Append(retry.waited,
                                                RETRY_DELAYS_MS[retry.attempt + 1])]
    /\ UNCHANGED outsideRetry

\* The route handler takes the response or the error.
RetryTaken ==
    /\ retry.pc \in {"returned", "thrown"}
    /\ retry' = NoRetry
    /\ UNCHANGED outsideRetry

NextRetry ==
    \/ RetryCall
    \/ FetchSettles
    \/ DelayPassed
    \/ RetryTaken

\* ------------------------------------------------------------------------
\* lib/session.ts: startSession, pauseSession, resumeSession, endSession
\* ------------------------------------------------------------------------
MaxSessions == 2
MaxPauses == 2
MaxSessionInstant == 2
MaxSessionCalls == 6
\* two handlers of the session buttons (SessionBar and DriveClient use the
\* same library and the same table)
SessionCallers == {1, 2}
SessionIds == 1..MaxSessions
SessionOps == {"start", "pause", "resume", "end"}
NoSession == [id |-> 0]
NoSessionCall == [op |-> "none", pc |-> "idle", put |-> NoSession]
NoSessionEvent == [op |-> "none"]

OpenPause(startAt) == [startAt |-> startAt, endAt |-> NullDate]

\* bug: the first pause is closed instead of the last
closeOpenPause_first(session, endedAtIso) ==
    IF Len(session.pauses) = 0
    THEN session
    ELSE [session EXCEPT !.pauses =
             [index \in 1..Len(session.pauses) |->
                 IF index = 1 /\ session.pauses[index].endAt = NullDate
                 THEN [session.pauses[index] EXCEPT !.endAt = endedAtIso]
                 ELSE session.pauses[index]]]

closeOpenPause(session, endedAtIso) ==
    IF Len(session.pauses) = 0
    THEN session
    ELSE [session EXCEPT !.pauses =
             [index \in 1..Len(session.pauses) |->
                 IF index = Len(session.pauses) /\ session.pauses[index].endAt = NullDate
                 THEN [session.pauses[index] EXCEPT !.endAt = endedAtIso]
                 ELSE session.pauses[index]]]

\* db.sessions.where("status").anyOf(...statuses): the ids of the rows
WhereStatus(table, statuses) ==
    {id \in SessionIds : table[id] # NoSession /\ table[id].status \in statuses}

\* the rows of ids that sort((a, b) => b.startedAt - a.startedAt) can put
\* first: the query returns rows of one status in primary-key order, the
\* keys are random UUIDs, so any row with the largest startedAt can be first
LatestOf(table, ids) ==
    {id \in ids : \A other \in ids :
        GetTime(table[id].startedAt) >= GetTime(table[other].startedAt)}

\* what getLatestOpenSession can resolve with
getLatestOpenSession(table) ==
    LET openSessions == WhereStatus(table, {"active", "paused"})
    IN IF openSessions = {} THEN {NoSession}
       ELSE {table[id] : id \in LatestOf(table, openSessions)}

\* what getActiveSession can resolve with: the row of status "active" with
\* the last primary key
getActiveSession(table) ==
    LET activeSessions == WhereStatus(table, {"active"})
    IN IF activeSessions = {} THEN {NoSession}
       ELSE {table[id] : id \in activeSessions}

\* the tables ensureSingleActiveSession can leave: with more than one active
\* session every one but the latest is ended
ensureSingleActiveSession(table, t) ==
    LET activeSessions == WhereStatus(table, {"active"})
    IN IF Cardinality(activeSessions) <= 1
       THEN {table}
       ELSE {[id \in SessionIds |->
                IF id \in activeSessions \ {latest}
                THEN [closeOpenPause(table[id], ToISOString(t))
                         EXCEPT !.status = "ended", !.endedAt = ToISOString(t)]
                ELSE table[id]] : latest \in LatestOf(table, activeSessions)}

SessionIdle(c) == scall[c].pc = "idle"
InFlightOps(op) == {c \in SessionCallers : scall[c].op = op}
\* what a returning call did: the table it found, what it resolves with
SessionReturn(c, result, wrote) ==
    [op |-> scall[c].op, caller |-> c, before |-> sessions, result |-> result,
     wrote |-> wrote]

\* The operations read new Date().
SessionTick ==
    /\ sessionNow < MaxSessionInstant
    /\ sessionNow' = sessionNow + 1
    /\ sev' = NoSessionEvent
    /\ UNCHANGED <<sessions, scall, squeue, ncalls, outsideSession>>

\* A handler calls one of the four operations; the operation runs up to its
\* first await.
SessionCall(c) ==
    /\ SessionIdle(c)
    /\ ncalls < MaxSessionCalls
    /\ ncalls' = ncalls + 1
    /\ squeue' = Append(squeue, c)
    /\ \E op \in SessionOps :
          /\ op = "start" =>
                Cardinality(WhereStatus(sessions, {"active", "paused", "ended"}))
                   + Cardinality(InFlightOps("start")) < MaxSessions
          /\ op = "pause" =>
                \A id \in WhereStatus(sessions, {"active"}) :
                   Len(sessions[id].pauses) + Cardinality(InFlightOps("pause")) < MaxPauses
          /\ scall' = [scall EXCEPT ![c] =
                          [NoSessionCall EXCEPT !.op = op,
                              !.pc = IF op = "start" THEN "ensure"
                                     ELSE IF op = "pause" THEN "active" ELSE "open"]]
    /\ sev' = NoSessionEvent
    /\ UNCHANGED <<sessions, sessionNow, outsideSession>>

\* The table serves the requests in the order they were issued: the call
\* whose request is served runs on to its next request or to its return.
Served(c) == squeue # <<>> /\ Head(squeue) = c
Requeued(c) == Append(Tail(squeue), c)

\* startSession: `await ensureSingleActiveSession()` completes and the query
\* of getLatestOpenSession is issued.
EnsureSingle(c) ==
    /\ scall[c].pc = "ensure"
    /\ Served(c)
    /\ squeue' = Requeued(c)
    /\ sessions' \in ensureSingleActiveSession(sessions, sessionNow)
    /\ scall' = [scall EXCEPT ![c].pc = "open"]
    /\ sev' = NoSessionEvent
    /\ UNCHANGED <<sessionNow, ncalls, outsideSession>>

\* `await getLatestOpenSession()` resolves in startSession, resumeSession or
\* endSession: the operation returns, or builds its record and issues the
\* add or the put.
OpenRead(c) ==
    /\ scall[c].pc = "open"
    /\ Served(c)
    /\ \E existing \in getLatestOpenSession(sessions) :
          LET nowIso == ToISOString(sessionNow)
              op == scall[c].op
          IN IF op = "start"
             THEN IF existing # NoSession
                  THEN /\ scall' = [scall EXCEPT ![c] = NoSessionCall]
                       /\ sev' = SessionReturn(c, existing, FALSE)
                  ELSE /\ scall' = [scall EXCEPT ![c].pc = "write",
                                                ![c].put = [id |-> 0, startedAt |-> nowIso,
                                                            endedAt |-> NullDate,
                                                            status |-> "active",
                                                            pauses |-> <<>>]]
                       /\ sev' = NoSessionEvent
             ELSE IF existing = NoSession \/ (op = "resume" /\ existing.status = "active")
             THEN /\ scall' = [scall EXCEPT ![c] = NoSessionCall]
                  /\ sev' = SessionReturn(c, existing, FALSE)
             ELSE IF op = "resume"
             THEN /\ scall' = [scall EXCEPT ![c].pc = "write",
                                           ![c].put = [closeOpenPause(existing, nowIso)
                                                          EXCEPT !.status = "active"]]
                  /\ sev' = NoSessionEvent
             ELSE /\ scall' = [scall EXCEPT ![c].pc = "write",
                                           ![c].put = [closeOpenPause(existing, nowIso)
                                                          EXCEPT !.status = "ended",
                                                                 !.endedAt = nowIso]]
                  /\ sev' = NoSessionEvent
    /\ squeue' = IF scall'[c].pc = "idle" THEN Tail(squeue) ELSE Requeued(c)
    /\ UNCHANGED <<sessions, sessionNow, ncalls, outsideSession>>

\* `await getActiveSession()` resolves in pauseSession.
ActiveRead(c) ==
    /\ scall[c].pc = "active"
    /\ Served(c)
    /\ \E active \in getActiveSession(sessions) :
          IF active = NoSession
          THEN /\ scall' = [scall EXCEPT ![c] = NoSessionCall]
               /\ sev' = SessionReturn(c, NoSession, FALSE)
          ELSE /\ scall' = [scall EXCEPT
                               ![c].pc = "write",
                               ![c].put = [active EXCEPT
                                             !.status = "paused",
                                             !.pauses = Append(active.pauses,
                                                               OpenPause(ToISOString(sessionNow)))]]
               /\ sev' = NoSessionEvent
    /\ squeue' = IF scall'[c].pc = "idle" THEN Tail(squeue) ELSE Requeued(c)
    /\ UNCHANGED <<sessions, sessionNow, ncalls, outsideSession>>

\* db.sessions.add / db.sessions.put completes and the operation returns the
\* record.  crypto.randomUUID() gives a new session an id no row has.
WriteDone(c) ==
    /\ scall[c].pc = "write"
    /\ Served(c)
    /\ squeue' = Tail(squeue)
    /\ LET id == IF scall[c].put.id # 0 THEN scall[c].put.id
                 ELSE CHOOSE free \in SessionIds :
                         /\ sessions[free] = NoSession
                         /\ \A lower \in 1..(free - 1) : sessions[lower] # NoSession
           record == [scall[c].put EXCEPT !.id = id]
       IN /\ sessions' = [sessions EXCEPT ![id] = record]
          /\ sev' = SessionReturn(c, record, TRUE)
    /\ scall' = [scall EXCEPT ![c] = NoSessionCall]
    /\ UNCHANGED <<sessionNow, ncalls, outsideSession>>

SessionStep(c) ==
    \/ EnsureSingle(c)
    \/ OpenRead(c)
    \/ ActiveRead(c)
    \/ WriteDone(c)

\* Calls may overlap at their awaits: handler 2 is called while the call of
\* handler 1 is in flight.
OverlappingCall(c) ==
    /\ c = 2 => ~SessionIdle(1)
    /\ SessionCall(c)

NextSession ==
    \/ SessionTick
    \/ \E c \in SessionCallers : OverlappingCall(c)
    \/ \E c \in SessionCallers : SessionStep(c)

\* An operation is called only when no other one is in flight.
SerialCall(c) ==
    /\ \A other \in SessionCallers : SessionIdle(other)
    /\ SessionCall(c)

NextSessionSerial ==
    \/ SessionTick
    \/ \E c \in SessionCallers : SerialCall(c)
    \/ \E c \in SessionCallers : SessionStep(c)

\* ------------------------------------------------------------------------
\* components/DriveClient.tsx: handleStartOrder, handleFinishOrder, and
\* lib/settings.ts: updateSettings
\* ------------------------------------------------------------------------
MaxOrders == 2
\* two taps on the "finish order" button, which stays enabled while an
\* invocation is in flight
Finishers == {1, 2}
OrderPredictions == {10, 50}
OrderEphValues == {0, 11, 1000}
NoDraft == [startedAt |-> 0, predictedScoreAtStart |-> 0]
NoFinish ==
    [pc |-> "idle", draftTripStart |-> NoDraft, settings |-> defaultWeights, actualEph |-> 0,
     updatedWeights |-> defaultWeights, next |-> defaultWeights]
NoOrderEvent == [kind |-> "none"]

\* updateSettings: { ...current.weights, ...(partial.weights ?? {}) }
mergeWeights(current, partial) ==
    [k \in DOMAIN current |-> IF k \in DOMAIN partial THEN partial[k] ELSE current[k]]

\* handleStartOrder: the draft of a new order is set.
StartOrder ==
    /\ draftTripStart = NoDraft
    /\ norders < MaxOrders
    /\ norders' = norders + 1
    /\ \E p \in OrderPredictions :
          draftTripStart' = [startedAt |-> ToISOString(norders + 1), predictedScoreAtStart |-> p]
    /\ oev' = NoOrderEvent
    /\ UNCHANGED <<settingsState, settingsDb, tripsDb, finish, outsideOrder>>

\* handleFinishOrder up to `await getCurrentPosition()`: the invocation runs
\* with the draft and the settings of the render it was created in.
FinishInvoke(c) ==
    /\ finish[c].pc = "idle"
    /\ draftTripStart # NoDraft
    /\ finish' = [finish EXCEPT ![c] = [NoFinish EXCEPT !.pc = "gps",
                                                      !.draftTripStart = draftTripStart,
                                                      !.settings = settingsState]]
    /\ oev' = NoOrderEvent
    /\ UNCHANGED <<draftTripStart, settingsState, settingsDb, tripsDb, norders, outsideOrder>>

\* The position arrives (the trip is built, attached to the session and its
\* add is issued) or fails (the catch block reports it).
PositionSettles(c) ==
    /\ finish[c].pc = "gps"
    /\ \/ \E a \in OrderEphValues :
             finish' = [finish EXCEPT ![c].pc = "add", ![c].actualEph = a]
       \/ finish' = [finish EXCEPT ![c] = NoFinish]
    /\ oev' = NoOrderEvent
    /\ UNCHANGED <<draftTripStart, settingsState, settingsDb, tripsDb, norders, outsideOrder>>

\* db.trips.add completes (nanoid() gives the trip a new id); the updated
\* weights are computed from the settings of the closure and updateSettings
\* issues its getSettings.
TripAdded(c) ==
    /\ finish[c].pc = "add"
    /\ tripsDb' = Append(tripsDb, [id |-> Len(tripsDb) + 1,
                                   startedAt |-> finish[c].draftTripStart.startedAt,
                                   actualEph |-> finish[c].actualEph])
    /\ finish' = [finish EXCEPT
                     ![c].pc = "get",
                     ![c].updatedWeights =
                         updateWeightsFromOutcome(
                             finish[c].draftTripStart.predictedScoreAtStart,
                             finish[c].actualEph, finish[c].settings)]
    /\ oev' = NoOrderEvent
    /\ UNCHANGED <<draftTripStart, settingsState, settingsDb, norders, outsideOrder>>

\* updateSettings: getSettings resolves, the stored settings are merged
\* with the partial and the put is issued.
SettingsRead(c) ==
    /\ finish[c].pc = "get"
    /\ finish' = [finish EXCEPT ![c].pc = "put",
                                ![c].next = mergeWeights(settingsDb, finish[c].updatedWeights)]
    /\ oev' = NoOrderEvent
    /\ UNCHANGED <<draftTripStart, settingsState, settingsDb, tripsDb, norders, outsideOrder>>

\* The put completes, the draft is cleared, and the live query hands the
\* stored settings to the component.
SettingsWritten(c) ==
    /\ finish[c].pc = "put"
    /\ settingsDb' = finish[c].next
    /\ settingsState' = finish[c].next
    /\ draftTripStart' = NoDraft
    /\ oev' = [kind |-> "finished", caller |-> c, before |-> settingsDb,
               delta |-> deltaOf(finish[c].draftTripStart.predictedScoreAtStart,
                                 finish[c].actualEph)]
    /\ finish' = [finish EXCEPT ![c] = NoFinish]
    /\ UNCHANGED <<tripsDb, norders, outsideOrder>>

NextOrder ==
    \/ StartOrder
    \/ \E c \in Finishers : FinishInvoke(c)
    \/ \E c \in Finishers : PositionSettles(c)
    \/ \E c \in Finishers : TripAdded(c)
    \/ \E c \in Finishers : SettingsRead(c)
    \/ \E c \in Finishers : SettingsWritten(c)

\* ------------------------------------------------------------------------
\* Claims about the signal cache (SpecCache)
\* ------------------------------------------------------------------------
GetDoneKinds == {"serve", "cooldown", "offlineCache", "offlineThrow", "fetchStart"}
ServedFromCache ==
    /\ ev.kind \in {"serve", "cooldown", "offlineCache"}
    /\ ev.value.kind = "ok"
    /\ ev.value.payload = ev.read.payload
    /\ ev.value.meta.fromCache
    /\ store[ev.args.key] = ev.read

\* C1: when the fetcher fails and the call had read a cache entry, the entry
\* stored is that entry with lastErrorAt and lastErrorMessage set and key,
\* payload, fetchedAt and ttlSeconds as read, and the call resolves with the
\* old payload and fromCache = true; it rejects only when it had read no entry.
C1_FailedFetchPatchesEntry ==
    /\ ev.kind = "rejected" => ev.read # NoEntry
    /\ ev.kind = "fetchErrThrown" => ev.read = NoEntry
    /\ ev.kind = "fetchErrPatched" =>
          LET old == ev.read
              new == store[ev.args.key]
          IN /\ old # NoEntry /\ new # NoEntry
             /\ new.key = old.key
             /\ new.payload = old.payload
             /\ new.fetchedAt = old.fetchedAt
             /\ new.ttlSeconds = old.ttlSeconds
             /\ new.lastErrorAt # NullDate
             /\ GetTime(new.lastErrorAt) <= now
             /\ new.lastErrorMessage # Null
             /\ ev.value.kind = "ok"
             /\ ev.value.payload = old.payload
             /\ ev.value.meta.fromCache
             /\ ev.value.meta.lastErrorMessage = new.lastErrorMessage

C1_Witness ==
    /\ ev.kind = "fetchErrPatched"
    /\ store[ev.args.key].payload = ev.read.payload
    /\ store[ev.args.key].lastErrorMessage = "Gagal mengambil POI"
    /\ GetTime(store[ev.args.key].fetchedAt) < GetTime(store[ev.args.key].lastErrorAt)
    /\ ev.value.meta.fromCache

\* C2: an entry read less than 5 minutes after its lastErrorAt is returned
\* with fromCache = true and lastErrorMessage populated, the fetcher is not
\* invoked and the store is not written, whatever the options and whether the
\* entry is fresh or stale.
C2_CooldownServesCache ==
    (/\ ev.kind \in GetDoneKinds
     /\ ev.read # NoEntry
     /\ ev.read.lastErrorAt # NullDate
     /\ now - GetTime(ev.read.lastErrorAt) < 5 * 60 * 1000)
    => /\ ServedFromCache
       /\ ev.value.meta.lastErrorMessage # Null
       /\ pc[ev.caller] = "idle"

C2_Witness ==
    /\ ev.kind = "cooldown"
    /\ ev.args.options.forceRefresh
    /\ ev.args.options.allowNetwork
    /\ ev.value.meta.isStale
    /\ ev.value.meta.lastErrorMessage # Null

\* C3: with forceRefresh false and an entry that is fresh, or any entry when
\* allowStale is true, the cached payload is returned with fromCache = true,
\* the fetcher is not invoked and the stored entry is left as it was.
C3_ServesWithoutFetch ==
    (/\ ev.kind \in GetDoneKinds
     /\ ~ev.args.options.forceRefresh
     /\ ev.read # NoEntry
     /\ \/ now - GetTime(ev.read.fetchedAt) < ev.read.ttlSeconds * 1000
        \/ ev.args.options.allowStale)
    => /\ ServedFromCache
       /\ pc[ev.caller] = "idle"

C3_Witness ==
    /\ ev.kind = "serve"
    /\ ev.args.options.allowStale
    /\ ev.args.options.allowNetwork
    /\ now - GetTime(ev.read.fetchedAt) >= ev.read.ttlSeconds * 1000
    /\ ev.read.lastErrorAt = NullDate

\* C4: a fetch that succeeds stores, under the key, the new payload, the
\* instant of the fetch as fetchedAt, the ttlSeconds of this call and no error
\* state, so that the key is not in cooldown, and the call resolves with the
\* new payload and fromCache = false.
C4_SuccessOverwritesEntry ==
    /\ ev.kind = "resolved" =>
          pending[ev.caller] = [key |-> ev.args.key,
                                fetchedAt |-> ToISOString(now),
                                ttlSeconds |-> ev.args.ttlSeconds,
                                payload |-> ev.payload,
                                lastErrorAt |-> NullDate,
                                lastErrorMessage |-> Null]
    /\ ev.kind = "fetchOk" =>
          LET new == store[ev.args.key]
          IN /\ new # NoEntry
             /\ new.key = ev.args.key
             /\ new.payload = ev.payload
             /\ new.ttlSeconds = ev.args.ttlSeconds
             /\ GetTime(new.fetchedAt) <= now
             /\ ev.read # NoEntry => GetTime(new.fetchedAt) >= GetTime(ev.read.fetchedAt)
             /\ new.lastErrorAt = NullDate
             /\ new.lastErrorMessage = Null
             /\ ev.value.kind = "ok"
             /\ ev.value.payload = ev.payload
             /\ ~ev.value.meta.fromCache
             /\ ev.value.meta.lastErrorAt = NullDate
             /\ ev.value.meta.lastErrorMessage = Null

C4_Witness ==
    /\ ev.kind = "fetchOk"
    /\ ev.read # NoEntry
    /\ ev.read.lastErrorAt # NullDate
    /\ ev.read.payload # ev.payload
    /\ ev.read.ttlSeconds # ev.args.ttlSeconds
    /\ store[ev.args.key].lastErrorAt = NullDate
    /\ store[ev.args.key].payload = ev.payload

\* C5: with allowNetwork false and no entry under the key, the call rejects
\* with the "offline and no cache" error, the fetcher is not invoked and no
\* entry is created.
C5_OfflineWithoutCacheRejects ==
    (/\ ev.kind \in GetDoneKinds
     /\ ~ev.args.options.allowNetwork
     /\ ev.read = NoEntry)
    => /\ ev.kind = "offlineThrow"
       /\ ev.value = Rejected(OfflineError)
       /\ pc[ev.caller] = "idle"
       /\ store[ev.args.key] = NoEntry

C5_Witness ==
    /\ ev.kind = "offlineThrow"
    /\ ev.args.options.forceRefresh
    /\ ev.value.error.message = "Offline dan cache belum tersedia."

\* C6: when the fetcher fails and the call had read no entry, the call
\* rejects with what the fetcher threw and issues no write; every stored
\* entry comes from a successful fetch.
C6_FailureWithoutCacheRethrows ==
    /\ (ev.kind \in {"rejected", "fetchErrThrown"} /\ ev.read = NoEntry) =>
          /\ ev.kind = "fetchErrThrown"
          /\ ev.value = Rejected(ev.thrown)
          /\ pc[ev.caller] = "idle"
          /\ pending[ev.caller] = NoEntry
    /\ \A k \in Keys :
          store[k] # NoEntry =>
             /\ store[k].payload \in Payloads
             /\ store[k].ttlSeconds \in TtlValues
    /\ \A c \in Callers :
          pc[c] = "putErr" => cached[c] # NoEntry

C6_Witness ==
    /\ ev.kind = "fetchErrThrown"
    /\ ~ev.thrown.isError
    /\ ev.value.error = ev.thrown
    /\ store[ev.args.key] = NoEntry

\* C8 (as claimed): whenever a stale entry is read with allowStale = true,
\* network allowed and no cooldown, a refresh of the entry is attempted.
C8_StaleReadAttemptsRefresh ==
    (/\ ev.kind \in GetDoneKinds
     /\ ev.read # NoEntry
     /\ now - GetTime(ev.read.fetchedAt) >= ev.read.ttlSeconds * 1000
     /\ ev.args.options.allowStale
     /\ ev.args.options.allowNetwork
     /\ ~(ev.read.lastErrorAt # NullDate
          /\ now - GetTime(ev.read.lastErrorAt) < 5 * 60 * 1000))
    => ev.kind = "fetchStart"

\* ------------------------------------------------------------------------
\* Claims about freshness (SpecProbe)
\* ------------------------------------------------------------------------
\* C7: an entry is fresh iff now - fetchedAt < ttlSeconds (strictly), so it is
\* stale when read exactly ttlSeconds after fetchedAt; meta.isFresh agrees
\* with isCacheValid at the same instant and meta.isStale is its negation.
C7_FreshnessAgrees ==
    probe.entry # NoEntry =>
       LET age == probe.at - GetTime(probe.entry.fetchedAt)
           m == probe.result.meta
       IN /\ m.isFresh <=> age < probe.entry.ttlSeconds * 1000
          /\ m.isFresh <=> probe.valid
          /\ m.isStale <=> ~m.isFresh
          /\ age = probe.entry.ttlSeconds * 1000 => m.isStale /\ ~probe.valid

C7_Witness ==
    /\ probe.entry # NoEntry
    /\ probe.at - GetTime(probe.entry.fetchedAt) = probe.entry.ttlSeconds * 1000
    /\ probe.result.meta.isStale
    /\ ~probe.valid
    /\ probe.result.meta.ageSeconds = probe.entry.ttlSeconds

\* ------------------------------------------------------------------------
\* Claims about the scoring engine (SpecEngine)
\* ------------------------------------------------------------------------
Abs(x) == IF x < 0 THEN -x ELSE x

\* C9: one update changes wInternal by at most 0.01, wRecency and wTravel by
\* at most 0.005 and wPoi and wRain by at most 0.01/3, for every actualEph and
\* predictedScoreAtStart; the ratio's denominator is max(predictedScoreAtStart, 1).
C9_UpdateIsBounded ==
    eng.op = "update" =>
       LET d == weights.wInternal - eng.before.wInternal
           denom == IF eng.predictedScoreAtStart > EphScale
                    THEN eng.predictedScoreAtStart ELSE EphScale
           diff == eng.actualEph - denom
       IN /\ Abs(d) * 100 <= WeightScale
          /\ Abs(weights.wRecency - eng.before.wRecency) * 200 <= WeightScale
          /\ Abs(weights.wTravel - eng.before.wTravel) * 200 <= WeightScale
          /\ Abs(weights.wPoi - eng.before.wPoi) * 300 <= WeightScale
          /\ Abs(weights.wRain - eng.before.wRain) * 300 <= WeightScale
          /\ Abs(diff) * 5 <= denom => d * 20 * denom = diff * WeightScale
          /\ diff * 5 > denom => d * 100 = WeightScale
          /\ diff * 5 < -denom => d * 100 = -WeightScale

C9_Witness ==
    /\ eng.op = "update"
    /\ eng.predictedScoreAtStart <= 0
    /\ eng.actualEph = 0
    /\ (eng.before.wInternal - weights.wInternal) * 100 = WeightScale
    /\ (weights.wTravel - eng.before.wTravel) * 200 = WeightScale

\* C10: the five weighted terms of explain() sum to the value of score() for
\* the same features and weights.
C10_TermsSumToScore ==
    eng.op = "evaluate" =>
       /\ Len(eng.terms) = 5
       /\ eng.terms[1].value + eng.terms[2].value + eng.terms[3].value
            + eng.terms[4].value + eng.terms[5].value = eng.score
       /\ {eng.terms[i].key : i \in 1..5} = {"internal", "recency", "poi", "travel", "rain"}

C10_Witness ==
    /\ eng.op = "evaluate"
    /\ eng.features.rainRiskNext3h >= 60
    /\ eng.features.internalEph < 0
    /\ eng.features.poiCount > 0
    /\ eng.features.travelCost > 0
    /\ eng.weights # defaultWeights
    /\ eng.score # 0
    /\ eng.terms[3].value # 0
    /\ eng.terms[4].value # 0

\* C11: in score() and explain() the POI weight counts 1.2 times and the
\* travel weight 1.3 times when the clamped rain risk is at least 0.6 (0.6
\* included), both count once below 0.6, and the internal, recency and rain
\* weights always count once.
C11_RainAdjustsPoiAndTravel ==
    eng.op = "evaluate" =>
       LET f == eng.features
           w == eng.weights
           rainRisk == IF f.rainRiskNext3h < 0 THEN 0
                       ELSE IF f.rainRiskNext3h > FeatureScale THEN FeatureScale
                       ELSE f.rainRiskNext3h
           heavy == rainRisk * 10 >= 6 * FeatureScale
           internalTerm == w.wInternal * 10 * normalizeLog(f.internalEph)
           recencyTerm == w.wRecency * 10 * f.recencyScore
           poiTerm == w.wPoi * (IF heavy THEN 12 ELSE 10) * normalizeLog(f.poiCount)
           travelTerm == w.wTravel * (IF heavy THEN 13 ELSE 10) * normalizeLog(f.travelCost)
           rainTerm == w.wRain * 10 * rainRisk
       IN /\ eng.score = internalTerm + recencyTerm + poiTerm + travelTerm + rainTerm
          /\ eng.terms[1].value = internalTerm
          /\ eng.terms[2].value = recencyTerm
          /\ eng.terms[3].value = poiTerm
          /\ eng.terms[4].value = travelTerm
          /\ eng.terms[5].value = rainTerm

C11_Witness ==
    /\ eng.op = "evaluate"
    /\ eng.features.rainRiskNext3h * 10 = 6 * FeatureScale
    /\ eng.features.poiCount > 0
    /\ eng.features.travelCost > 0
    /\ eng.weights = defaultWeights
    /\ eng.terms[3].value = eng.weights.wPoi * 12 * normalizeLog(eng.features.poiCount)
    /\ eng.terms[4].value = eng.weights.wTravel * 13 * normalizeLog(eng.features.travelCost)
    /\ eng.terms[3].value # eng.weights.wPoi * 10 * normalizeLog(eng.features.poiCount)

\* C14: explain() returns three reasons, those of three terms no other term
\* exceeds in absolute contribution, ordered by descending absolute
\* contribution; the rain term carries the 'Risiko hujan tinggi' reason
\* exactly when the clamped rain risk is at least 0.6.
C14_ExplainTopThreeByMagnitude ==
    eng.op = "evaluate" =>
       LET t == eng.terms
           r == eng.reasons
           rainRisk == IF eng.features.rainRiskNext3h < 0 THEN 0
                       ELSE IF eng.features.rainRiskNext3h > FeatureScale THEN FeatureScale
                       ELSE eng.features.rainRiskNext3h
           heavy == rainRisk * 10 >= 6 * FeatureScale
       IN /\ Len(r) = 3
          /\ \E i1, i2, i3 \in 1..5 :
                /\ i1 # i2 /\ i1 # i3 /\ i2 # i3
                /\ r = <<t[i1].reason, t[i2].reason, t[i3].reason>>
                /\ Abs(t[i1].value) >= Abs(t[i2].value)
                /\ Abs(t[i2].value) >= Abs(t[i3].value)
                /\ \A j \in (1..5) \ {i1, i2, i3} : Abs(t[i3].value) >= Abs(t[j].value)
          /\ t[5].reason = "Risiko hujan tinggi (lebih baik indoor)" <=> heavy
          /\ t[5].reason = "Cuaca relatif aman" <=> ~heavy
          /\ (\E p \in 1..3 : r[p] = "Risiko hujan tinggi (lebih baik indoor)") => heavy
          /\ (\E p \in 1..3 : r[p] = "Cuaca relatif aman") => ~heavy

C14_Witness ==
    /\ eng.op = "evaluate"
    /\ eng.weights = defaultWeights
    /\ eng.terms[4].value < 0
    /\ eng.reasons[1] = "Biaya pindah lumayan"
    /\ \E p \in 2..3 : eng.reasons[p] = "Risiko hujan tinggi (lebih baik indoor)"
    /\ \E j \in 1..5 : eng.terms[j].value > 0 /\ eng.terms[j].value < -eng.terms[4].value

\* ------------------------------------------------------------------------
\* Claims about buildCellFeatures and recommendTopCells (SpecRecommend)
\* ------------------------------------------------------------------------
Returned == rec.op = "recommendTopCells" /\ ~rec.out.threw
Built == feat.op = "buildCellFeatures" /\ ~feat.out.threw

\* C12: a call of recommendTopCells that returns gives min(3, number of
\* candidates) records in descending order of final score, each the scored
\* record of a different candidate cell, no omitted candidate scoring higher
\* than a returned one; an empty candidate list gives an empty list and
\* never throws.
C12_TopThreeByScore ==
    /\ Returned =>
         LET cand == rec.candidateCells
             n == Len(cand)
             top == rec.out.top
             scored == rec.out.scored
             topCells == {top[p].cell : p \in 1..Len(top)}
         IN /\ Len(top) = (IF n < 3 THEN n ELSE 3)
            /\ Len(scored) = n
            /\ \A p \in 1..Len(top) : \E k \in 1..n : top[p] = scored[k] /\ top[p].cell = cand[k]
            /\ Cardinality(topCells) = Len(top)
            /\ \A p \in 1..(Len(top) - 1) : top[p].score >= top[p + 1].score
            /\ \A k \in 1..n : scored[k].cell \notin topCells =>
                  \A p \in 1..Len(top) : scored[k].score <= top[p].score
    /\ rec.op = "recommendTopCells" /\ rec.candidateCells = <<>> =>
          ~rec.out.threw /\ rec.out.top = <<>>

C12_Witness ==
    /\ Returned
    /\ Len(rec.candidateCells) = 4
    /\ Len(rec.out.top) = 3
    /\ rec.out.top[1].cell = rec.candidateCells[4]
    /\ rec.out.top[1].score > rec.out.top[2].score
    /\ rec.out.top[2].score = rec.out.top[3].score
    /\ \E k \in 1..4 : /\ \A p \in 1..3 : rec.out.top[p].cell # rec.out.scored[k].cell
                       /\ rec.out.scored[k].score < rec.out.top[3].score

\* C13: the final score of every scored candidate is score(features, weights)
\* or that plus 0.25, the latter only with internalCount <= 1 and
\* poiCount >= 6 and never with explorationRate = 0; the features are those
\* of buildCellFeatures and the reasons those of explain, bonus or not.
C13_BonusOnlyForUnexploredPoiCells ==
    Returned =>
       LET scored == rec.out.scored
           w == rec.settings.weights
       IN \A k \in 1..Len(scored) :
            LET item == scored[k]
                base == score(item.features, w)
            IN /\ item.score = base \/ item.score = base + ScoreOne \div 4
               /\ item.score # base =>
                     item.features.internalCount <= 1 /\ item.features.poiCount >= 6
               /\ rec.settings.explorationRate = 0 => item.score = base
               /\ item.features = buildCellFeatures(item.cell, rec.trips, rec.poiCells,
                                                    rec.weather, CallInstant, rec.settings,
                                                    rec.nanOutcome).features
               /\ item.reasons = explain(item.features, w)

C13_Witness ==
    /\ Returned
    /\ rec.settings.explorationRate > 0
    /\ \E p \in 1..Len(rec.out.top) :
          /\ rec.out.top[p].score
                = score(rec.out.top[p].features, rec.settings.weights) + ScoreOne \div 4
          /\ rec.out.top[p].features.poiCount >= 6
          /\ rec.out.top[p].features.internalCount = 1
    /\ \E k \in 1..Len(rec.out.scored) :
          /\ rec.out.scored[k].features.poiCount >= 6
          /\ rec.out.scored[k].features.internalCount <= 1
          /\ rec.out.scored[k].score = score(rec.out.scored[k].features, rec.settings.weights)

\* C16: the recencyScore buildCellFeatures computes is never below 0, and it
\* is 0 when no trip matches the cell, whatever the history and the instant
\* of the call, a most recent trip that ends after that instant included.
C16_RecencyNeverNegative ==
    Built =>
       /\ feat.out.features.recencyScore >= 0
       /\ feat.out.features.internalCount = 0 => feat.out.features.recencyScore = 0

\* C17: rainRiskNext3h is the largest precipitationProbability among the
\* hourly entries timed within [now, now + 3h], both ends included, divided
\* by 100 and clamped to [0, 1]; 0 when weather is null or no entry is in
\* the window.
C17_RainRiskIsClampedWindowMax ==
    Built =>
       LET r == feat.out.features.rainRiskNext3h
           h == IF feat.weather = NullValue THEN <<>> ELSE feat.weather.hourly
           inside == {k \in 1..Len(h) : /\ GetTime(h[k].time) >= feat.now
                                        /\ GetTime(h[k].time) <= feat.now + 3 * HOUR}
           top == CHOOSE k \in inside : \A q \in inside :
                     h[k].precipitationProbability >= h[q].precipitationProbability
           percent == h[top].precipitationProbability
       IN /\ r >= 0 /\ r <= FeatureScale
          /\ inside = {} => r = 0
          /\ inside # {} =>
                r = (IF percent < 0 THEN 0 ELSE IF percent > 100 THEN FeatureScale
                     ELSE (percent * FeatureScale) \div 100)

C17_Witness ==
    /\ Built
    /\ feat.weather # NullValue
    /\ Len(feat.weather.hourly) = 2
    /\ GetTime(feat.weather.hourly[1].time) = feat.now + 3 * HOUR
    /\ feat.weather.hourly[1].precipitationProbability = 60
    /\ GetTime(feat.weather.hourly[2].time) = feat.now + 3 * HOUR + 1
    /\ feat.weather.hourly[2].precipitationProbability = 150
    /\ feat.out.features.rainRiskNext3h * 10 = 6 * FeatureScale

\* C18: with poiCells = null and weather = null, buildCellFeatures and
\* recommendTopCells raise no error, every feature record has poiCount = 0
\* and rainRiskNext3h = 0, and a trip without start coordinates is skipped,
\* not counted.
C18_MissingSignalsDegrade ==
    /\ feat.op = "buildCellFeatures" /\ feat.poiCells = NullValue /\ feat.weather = NullValue =>
          /\ ~feat.out.threw
          /\ feat.out.features.poiCount = 0
          /\ feat.out.features.rainRiskNext3h = 0
          /\ feat.out.features.internalCount
                = Cardinality({k \in 1..Len(feat.trips) :
                                 /\ feat.trips[k].startLat \notin {NullValue, NaN}
                                 /\ Cell(feat.trips[k].startLat.num) = feat.cellH3})
    /\ rec.op = "recommendTopCells" /\ rec.poiCells = NullValue /\ rec.weather = NullValue =>
          /\ ~rec.out.threw
          /\ \A k \in 1..Len(rec.out.scored) :
                /\ rec.out.scored[k].features.poiCount = 0
                /\ rec.out.scored[k].features.rainRiskNext3h = 0

\* the trips of the last buildCellFeatures call that bin to its cell
MatchingTrips ==
    {k \in 1..Len(feat.trips) :
        /\ feat.trips[k].startLat # NullValue
        /\ feat.trips[k].startLon # NullValue
        /\ latLngToCell(feat.trips[k].startLat, feat.trips[k].startLon,
                        feat.settings.preferredH3Res, feat.nanOutcome) = feat.cellH3}
\* the duration of a trip of that call in tenths of an hour
TenthsOf(k) ==
    (GetTime(feat.trips[k].endedAt) - GetTime(feat.trips[k].startedAt)) \div (HOUR \div 10)

\* C23: no division has a zero denominator: every matching trip adds at
\* least 0.1 h to hoursSum, the recency denominator 1 + daysSinceLastTrip is
\* never 0 (so recencyScore is finite), and the weight update divides by
\* max(predictedScoreAtStart, 1).
C23_NoZeroDenominator ==
    /\ Built =>
          LET latest == CHOOSE k \in MatchingTrips : \A q \in MatchingTrips :
                           GetTime(feat.trips[k].endedAt) >= GetTime(feat.trips[q].endedAt)
          IN /\ MatchingTrips # {} =>
                   SumOver([k \in 1..Len(feat.trips) |-> Max(TenthsOf(k), 1)], MatchingTrips) > 0
             /\ MatchingTrips # {} =>
                   DAY + (feat.now - GetTime(feat.trips[latest].endedAt)) # 0
             /\ feat.out.features.recencyScore # Infinity
    /\ eng.op = "update" => Max(eng.predictedScoreAtStart, EphScale) > 0

\* C24: internalEph is the sum of the earnings of the trips that bin to the
\* cell divided by the sum of their durations in hours, each floored at
\* 0.1 h; it is 0 when no trip matches; internalCount is the number of those
\* trips.  The quotient is exact, so with the hours sum fixed a larger
\* earnings sum gives a strictly larger internalEph.
C24_InternalEphIsEarningsPerHour ==
    Built =>
       LET earnings == SumOver([k \in 1..Len(feat.trips) |-> feat.trips[k].earnings],
                               MatchingTrips)
           tenths == SumOver([k \in 1..Len(feat.trips) |-> Max(TenthsOf(k), 1)],
                             MatchingTrips)
       IN /\ feat.out.features.internalCount = Cardinality(MatchingTrips)
          /\ MatchingTrips = {} => feat.out.features.internalEph = 0
          /\ MatchingTrips # {} =>
                /\ tenths > 0
                /\ feat.out.features.internalEph * tenths = earnings * 10

C24_Witness ==
    /\ Built
    /\ Len(feat.trips) = 2
    /\ Cardinality(MatchingTrips) = 2
    /\ TenthsOf(1) = 20
    /\ TenthsOf(2) = 10
    /\ feat.out.features.internalEph = 5
    /\ feat.out.features.internalCount = 2

\* ------------------------------------------------------------------------
\* Claims about binPointsToH3 (SpecBin)
\* ------------------------------------------------------------------------
\* C15: the values binPointsToH3 returns sum to the sum of the input values,
\* an absent value counting 1; no cell id is returned twice; every returned
\* cell is the cell of an input point; an empty input gives an empty output.
C15_BinningConserves ==
    bin.op = "binPointsToH3" =>
       LET pts == bin.points
           out == bin.out
           given(k) == IF pts[k].value = Undefined THEN 1 ELSE pts[k].value.num
       IN /\ SumOver([p \in 1..Len(out) |-> out[p].value], 1..Len(out))
               = SumOver([k \in 1..Len(pts) |-> given(k)], 1..Len(pts))
          /\ \A p, q \in 1..Len(out) : p # q => out[p].cell # out[q].cell
          /\ \A p \in 1..Len(out) : \E k \in 1..Len(pts) :
                out[p].cell = [res |-> bin.resolution,
                               i |-> pts[k].lat.num \div (IF bin.resolution = FineRes THEN 1 ELSE 2),
                               j |-> 0]
          /\ pts = <<>> => out = <<>>

C15_Witness ==
    /\ bin.op = "binPointsToH3"
    /\ Len(bin.points) = 3
    /\ Len(bin.out) = 2
    /\ bin.points[1].value = Undefined
    /\ bin.points[2].value = Num(0)
    /\ bin.points[3].value = Num(3)
    /\ bin.points[1].lat # bin.points[3].lat
    /\ bin.out[1].value = 4
    /\ bin.out[2].value = 0

\* ------------------------------------------------------------------------
\* Claim about overlapping calls of getOrFetchSignal (SpecCache)
\* ------------------------------------------------------------------------
\* C20: whatever the interleaving of the calls for a key, the write of a call
\* whose fetch failed leaves the stored payload and fetchedAt as they are: it
\* never puts back the older payload the call read at its start over the
\* payload another call's successful fetch has stored since.
C20_FailedFetchKeepsStoredPayload ==
    [][ev'.kind = "fetchErrPatched" =>
          \A k \in Keys : /\ store'[k].payload = store[k].payload
                          /\ store'[k].fetchedAt = store[k].fetchedAt]_vars

\* ------------------------------------------------------------------------
\* Claims about the service worker (SpecSw)
\* ------------------------------------------------------------------------
\* C19: a navigation GET whose network fetch fails is answered with the
\* cached response of that request if the static cache has one, otherwise
\* with the cached '/offline' page, and is rejected only when the static
\* cache has neither; a request that is not a GET is never intercepted.
C19_OfflineNavigationFallsBack ==
    swEv.op = "fetch" =>
       LET request == swEv.request
           cache == swEv.before
       IN /\ request.method = "GET" /\ request.mode = "navigate" /\ swEv.net = NetworkError =>
               /\ swEv.intercepted
               /\ cache[request.url] # NoResponse =>
                     swEv.answer = Answered(cache[request.url])
               /\ cache[request.url] = NoResponse /\ cache["/offline"] # NoResponse =>
                     swEv.answer = Answered(cache["/offline"])
               /\ swEv.answer = AnswerRejected <=>
                     cache[request.url] = NoResponse /\ cache["/offline"] = NoResponse
               /\ staticCache = cache
          /\ request.method # "GET" =>
               ~swEv.intercepted /\ swEv.answer = NoAnswer /\ staticCache = cache

C19_Witness ==
    /\ swEv.op = "fetch"
    /\ swEv.request = [method |-> "GET", mode |-> "navigate", url |-> "/drive"]
    /\ swEv.net = NetworkError
    /\ swEv.before["/drive"] = NoResponse
    /\ swEv.before["/"] # NoResponse
    /\ swEv.answer = Answered(Response("/offline", 200, 1))

\* ------------------------------------------------------------------------
\* Claims about offline calls of the signal cache (SpecCache)
\* ------------------------------------------------------------------------
\* C26: a call with allowNetwork = false never invokes the fetcher and never
\* writes to the store, whatever forceRefresh, allowStale and the entry are:
\* it resolves with the entry it read and fromCache = true, or rejects when
\* there is none.
C26_OfflineCallNeverFetches ==
    /\ \A c \in Callers : pc[c] \in {"fetch", "putOk", "putErr"} => args[c].options.allowNetwork
    /\ ev.kind \in {"fetchStart", "resolved", "rejected", "fetchOk", "fetchErrPatched",
                    "fetchErrThrown"} => ev.args.options.allowNetwork
    /\ (ev.kind \in GetDoneKinds /\ ~ev.args.options.allowNetwork) =>
          /\ pc[ev.caller] = "idle"
          /\ pending[ev.caller] = NoEntry
          /\ store[ev.args.key] = ev.read
          /\ IF ev.read # NoEntry
             THEN /\ ev.kind \in {"serve", "cooldown", "offlineCache"}
                  /\ ev.value.kind = "ok"
                  /\ ev.value.payload = ev.read.payload
                  /\ ev.value.meta.fetchedAt = ev.read.fetchedAt
                  /\ ev.value.meta.fromCache
             ELSE /\ ev.kind = "offlineThrow"
                  /\ ev.value = Rejected(OfflineError)

C26_Witness ==
    /\ ev.kind = "offlineCache"
    /\ ~ev.args.options.allowNetwork
    /\ ev.args.options.forceRefresh
    /\ ev.read.lastErrorAt # NullDate
    /\ ~ev.value.meta.isFresh
    /\ ev.value.meta.fromCache

\* ------------------------------------------------------------------------
\* Claims about the drift of the weights (SpecDrift, SpecEngine)
\* ------------------------------------------------------------------------
\* C21: an update bounds only its delta (at most 0.01 in magnitude): every
\* weight moves by its full share of the delta however far it already is
\* from its default, so after n updates a weight is only known to be within
\* n deltas of its default, and the travel weight can become positive.
C21_OnlyTheDeltaIsBounded ==
    eng.op = "update" =>
       LET delta == deltaOf(eng.predictedScoreAtStart, eng.actualEph)
       IN /\ Abs(delta) * 100 <= WeightScale
          /\ weights.wInternal = eng.before.wInternal + delta
          /\ weights.wRecency = eng.before.wRecency + delta \div 2
          /\ weights.wPoi = eng.before.wPoi + delta \div 3
          /\ weights.wTravel = eng.before.wTravel - delta \div 2
          /\ weights.wRain = eng.before.wRain - delta \div 3
          /\ Abs(weights.wInternal - defaultWeights.wInternal) * 100 <= nUpdates * WeightScale

C21_Witness ==
    /\ eng.op = "update"
    /\ eng.before.wTravel = 0
    /\ weights.wTravel > 0
    /\ weights.wRain > 0
    /\ (defaultWeights.wInternal - weights.wInternal) * 100 = nUpdates * WeightScale

\* C30: starting from the default weights, the five weights stay on one
\* line: wInternal - 1.0 = 2 (wRecency - 0.5) = 3 (wPoi - 0.25)
\* = -2 (wTravel + 0.6) = -3 (wRain + 0.2) after any sequence of updates.
C30_WeightsStayOnOneLine ==
    LET d == weights.wInternal - defaultWeights.wInternal
    IN /\ d = 2 * (weights.wRecency - defaultWeights.wRecency)
       /\ d = 3 * (weights.wPoi - defaultWeights.wPoi)
       /\ d = -2 * (weights.wTravel - defaultWeights.wTravel)
       /\ d = -3 * (weights.wRain - defaultWeights.wRain)

C30_Witness ==
    /\ eng.op = "update"
    /\ nUpdates >= 2
    /\ eng.before # defaultWeights
    /\ (weights.wInternal - defaultWeights.wInternal) * 50 = -WeightScale
    /\ (weights.wPoi - defaultWeights.wPoi) * 150 = -WeightScale
    /\ (weights.wRain - defaultWeights.wRain) * 150 = WeightScale

\* ------------------------------------------------------------------------
\* Claims about fetchWithRetry (SpecRetry)
\* ------------------------------------------------------------------------
\* C25: fetchWithRetry makes at most 3 attempts, waits 500 ms after the
\* first failure and 1500 ms after the second and nothing after the third,
\* returns the first ok response without a further attempt, treats a status
\* that is not ok as a failure, and after the third failure throws the error
\* of the last attempt.
C25_RetryIsBounded ==
    LET n == Len(retry.outcomes)
        Failed(k) == ~(/\ retry.outcomes[k].kind = "response"
                       /\ retry.outcomes[k].status \in 200..299)
        ErrorOf(k) ==
            IF retry.outcomes[k].kind = "response"
            THEN [message |-> IF retry.route = "poi" THEN "Overpass gagal"
                              ELSE "Open-Meteo gagal",
                  status |-> retry.outcomes[k].status]
            ELSE [message |-> retry.outcomes[k].message, status |-> 0]
    IN /\ n <= 3
       /\ \A k \in 1..(n - 1) : Failed(k)
       /\ Len(retry.waited) <= 2
       /\ \A k \in 1..Len(retry.waited) : retry.waited[k] = (IF k = 1 THEN 500 ELSE 1500)
       /\ retry.pc = "fetch" => Len(retry.waited) = n
       /\ retry.pc = "wait" => Failed(n) /\ n <= 2 /\ Len(retry.waited) = n - 1
       /\ retry.pc = "returned" =>
             /\ ~Failed(n)
             /\ retry.returned = retry.outcomes[n]
             /\ Len(retry.waited) = n - 1
       /\ retry.pc = "thrown" =>
             /\ n = 3
             /\ Failed(n)
             /\ retry.thrown = ErrorOf(n)
             /\ retry.waited = <<500, 1500>>

C25_Witness ==
    /\ retry.pc = "thrown"
    /\ retry.route = "poi"
    /\ retry.outcomes[1].kind = "rejection"
    /\ retry.outcomes[2].status = 429
    /\ retry.outcomes[3].status = 504
    /\ retry.thrown = [message |-> "Overpass gagal", status |-> 504]
    /\ retry.waited = <<500, 1500>>

\* ------------------------------------------------------------------------
\* Claims about the sessions (SpecSession, SpecSessionSerial)
\* ------------------------------------------------------------------------
OpenPauses(session) ==
    {index \in 1..Len(session.pauses) : session.pauses[index].endAt = NullDate}

\* C27: after any sequence of startSession, pauseSession, resumeSession and
\* endSession calls, overlapping ones included, at most one session is
\* 'active' or 'paused'; startSession returns the open session it finds
\* instead of adding one.
C27_AtMostOneOpenSession ==
    /\ Cardinality(WhereStatus(sessions, {"active", "paused"})) <= 1
    /\ sev.op = "start" /\ WhereStatus(sev.before, {"active", "paused"}) # {} =>
          /\ ~sev.wrote
          /\ sev.result.id \in WhereStatus(sev.before, {"active", "paused"})

\* C29: with the operations run one at a time, a session has a pause with
\* endAt = null iff it is 'paused', that pause is the last of its pauses and
\* the only open one, an 'ended' session has endedAt set and no open pause;
\* pauseSession without an active session and resumeSession on an active
\* session write nothing.
C29_PausesMatchStatus ==
    /\ \A id \in SessionIds :
          sessions[id] # NoSession =>
             /\ OpenPauses(sessions[id]) # {} <=> sessions[id].status = "paused"
             /\ OpenPauses(sessions[id]) \subseteq {Len(sessions[id].pauses)}
             /\ sessions[id].status = "ended" =>
                   /\ sessions[id].endedAt # NullDate
                   /\ OpenPauses(sessions[id]) = {}
    /\ sev.op = "pause" /\ WhereStatus(sev.before, {"active"}) = {} =>
          /\ ~sev.wrote
          /\ sev.result = NoSession
          /\ sessions = sev.before
    /\ sev.op = "resume" /\ WhereStatus(sev.before, {"active"}) # {} =>
          /\ ~sev.wrote
          /\ sev.result.status = "active"
          /\ sessions = sev.before

C29_Witness ==
    /\ sev.op = "pause"
    /\ ~sev.wrote
    /\ \E id \in SessionIds :
          /\ sessions[id] # NoSession
          /\ sessions[id].status = "paused"
          /\ Len(sessions[id].pauses) = 2
          /\ OpenPauses(sessions[id]) = {2}

\* ------------------------------------------------------------------------
\* Claims about finishing an order (SpecOrder)
\* ------------------------------------------------------------------------
\* C22: the read-modify-write of the weights loses no update: when an order
\* completion has stored its weights, they are the weights stored before
\* plus its own nudge, also when two completions overlap at their awaits.
C22_NoWeightUpdateIsLost ==
    oev.kind = "finished" =>
       /\ settingsDb.wInternal = oev.before.wInternal + oev.delta
       /\ settingsDb.wTravel = oev.before.wTravel - oev.delta \div 2

\* C28: each started order is stored as at most one trip, also when
\* handleFinishOrder is invoked again before the first invocation has
\* completed.
C28_OneTripPerOrder ==
    \A i, j \in 1..Len(tripsDb) :
       tripsDb[i].startedAt = tripsDb[j].startedAt => i = j

\* ------------------------------------------------------------------------
\* Specifications
\* ------------------------------------------------------------------------
\* The state after construction: an empty signal_cache table, no call of
\* getOrFetchSignal in flight, and the default weight vector in the settings.
Init ==
    /\ now = 0
    /\ store = [k \in Keys |-> NoEntry]
    /\ pc = [c \in Callers |-> "idle"]
    /\ args = [c \in Callers |-> NoArgs]
    /\ cached = [c \in Callers |-> NoEntry]
    /\ pending = [c \in Callers |-> NoEntry]
    /\ ev = NoEvent
    /\ probe = NoProbe
    /\ weights = defaultWeights
    /\ nUpdates = 0
    /\ eng = NoEngineCall
    /\ feat = NoFeat
    /\ rec = NoRec
    /\ history = <<>>
    /\ bin = NoBin
    /\ staticCache = EmptyCache
    /\ swInstalled = FALSE
    /\ swEv = NoFetchEvent
    /\ retry = NoRetry
    /\ sessions = [id \in SessionIds |-> NoSession]
    /\ sessionNow = 0
    /\ scall = [c \in SessionCallers |-> NoSessionCall]
    /\ squeue = <<>>
    /\ ncalls = 0
    /\ sev = NoSessionEvent
    /\ draftTripStart = NoDraft
    /\ settingsState = defaultWeights
    /\ settingsDb = defaultWeights
    /\ tripsDb = <<>>
    /\ finish = [c \in Finishers |-> NoFinish]
    /\ norders = 0
    /\ oev = NoOrderEvent

SpecCache == Init /\ [][NextCache]_vars
SpecProbe == Init /\ [][NextProbe]_vars
SpecEngine == Init /\ [][NextEngine]_vars
SpecDrift == Init /\ [][NextDrift]_vars
SpecRecommend == Init /\ [][NextRecommend]_vars
SpecBin == Init /\ [][NextBin]_vars
SpecSw == Init /\ [][NextSw]_vars
SpecRetry == Init /\ [][NextRetry]_vars
SpecSession == Init /\ [][NextSession]_vars
SpecSessionSerial == Init /\ [][NextSessionSerial]_vars
SpecOrder == Init /\ [][NextOrder]_vars

====
